---- MODULE Spec2Model ----
(***************************************************************************)
(* A model of heaparray-rs: the raw block (base/mem_block.rs), the fat and *)
(* thin pointer arrays built on it (base/fat.rs, base/thin.rs) and the     *)
(* naive reference-counted handle over them (naive_rc/generic.rs).         *)
(*                                                                         *)
(* The specifications share the variables:                                *)
(*   SpecBuild  one exclusively owned array, built and dropped step by    *)
(*              step (new_init's loop, dealloc's loop);                    *)
(*   SpecRc     reference-counted handles cloned and dropped by threads;   *)
(*   Spec       SpecRc plus explicit to_null, null_ref and the handle-     *)
(*              level atomic operations on a shared slot;                  *)
(*   SpecOps    one array built, then read and written through the        *)
(*              capability-layer operations;                               *)
(*   SpecAcc    reference-counted handles made null and operated on;      *)
(*   SpecNull   handles emptied and dropped, and null handles cloned;      *)
(*   SpecShare  one block cloned and operated on through its handles;      *)
(*   SpecClone  one owned array cloned, and the two written and dropped;   *)
(*   SpecFrom   two owned arrays of any lengths and clone_from;            *)
(*   SpecCas    two threads exchanging on one slot;                        *)
(*   SpecAtomic SpecRc plus the handle-level atomic operations;            *)
(*   SpecToNull SpecRc plus explicit to_null;                              *)
(*   SpecLive   the handle operations with one thread scheduled fairly;    *)
(*   SpecAlign  aligned_size applied to every size and alignment.          *)
(***************************************************************************)
EXTENDS Integers, Sequences, FiniteSets, TLC

\* ------------------------------------------------------------------ bounds

\* Largest length requested of an array.
MaxLen == 3
\* Element values are 1..MaxVal.
MaxVal == 2
\* Width of usize in the model; isize::MAX is 2^(WordBits-1) - 1.
WordBits == 6
\* Reference-counted blocks, handles that may ever exist, and threads.
NBlocks == 2
NHandles == 4
NThreads == 2
\* Explicit to_null calls made in one run of Spec.
MaxToNull == 2
\* Operations applied to one built array in one run of SpecOps or SpecClone.
MaxOps == 2
\* Operations called through handles in one run of SpecAcc.
MaxAcc == 1
\* Handles in a run of SpecCas: the slot, and current, new and the returned
\* handle of each of two compare_exchange calls.
NCasHandles == 7

\* ------------------------------------------------------- type descriptors

Pow2(n) == IF n = 0 THEN 1 ELSE IF n = 1 THEN 2 ELSE IF n = 2 THEN 4
           ELSE IF n = 3 THEN 8 ELSE IF n = 4 THEN 16 ELSE IF n = 5 THEN 32
           ELSE IF n = 6 THEN 64 ELSE IF n = 7 THEN 128 ELSE 256

\* core::isize::MAX as usize
IsizeMax == Pow2(WordBits - 1) - 1

\* (size, align) of the element types the model builds arrays of: a
\* zero-sized type, a 4-byte and an 8-byte type.
ElemTypes == { [size |-> 0, align |-> 1],
               [size |-> 4, align |-> 4],
               [size |-> 8, align |-> 8] }

\* The user's label types: a sized label with two counters (MyLabel of the
\* doc example, scaled to the model's word: its size is not a multiple of
\* every element alignment) and a zero-sized label; both have a destructor.
LabelTypes == {"Sized", "Zst"}

UserLabelDesc(lt) == IF lt = "Sized" THEN [size |-> 4, align |-> 4]
                                     ELSE [size |-> 0, align |-> 1]

Kinds == {"Fat", "Thin"}

Vals == 1..MaxVal
Idx  == 0..(MaxLen - 1)

max(a, b) == IF a >= b THEN a ELSE b

cond(c, a, b) == IF c THEN a ELSE b

safe_div(a, b) == IF b = 0 THEN 0 ELSE a \div b

\* usize arithmetic: results are kept to WordBits bits.
usize(x) == x % Pow2(WordBits)

\* A faulty variant of aligned_size: an aligned size is padded too.
aligned_size_bad(size, align) ==
    usize(size + align - (size % align))

\* alloc_utils.rs: aligned_size::<T>(align)
aligned_size(size, align) ==
    LET off_by == size % align
        adjusted_size == usize(usize(size + align) - off_by)
    IN  cond(off_by = 0, size, adjusted_size)

\* thin.rs: LenLabel<L> { len: usize, label: L } as a (size, align) pair
LenLabelDesc(ld) ==
    LET al == max(8, ld.align)
    IN  [size |-> aligned_size(aligned_size(8, ld.align) + ld.size, al),
         align |-> al]

\* The label type of the block behind an array of the given kind.
BlockLabelDesc(kind, lt) ==
    IF kind = "Thin" THEN LenLabelDesc(UserLabelDesc(lt)) ELSE UserLabelDesc(lt)

\* alloc_utils.rs: size_align::<T>()
size_align(t) == <<t.size, t.align>>

\* size_align_array::<E>(len)
size_align_array(t, len) == <<usize(t.size * len), t.align>>

\* A faulty variant of max_len: the label's bytes are not subtracted.
max_len_bad(e, l) ==
    cond(e.size = 0, IsizeMax, safe_div(IsizeMax, e.size))

\* mem_block.rs: MemBlock::<E, L>::max_len()
max_len(e, l) ==
    LET max_len_v == IsizeMax
        esize == size_align(e)[1]
        ealign == size_align(e)[2]
        lsize == aligned_size(l.size, ealign)
        max_len_calc == safe_div(usize(max_len_v - lsize), esize)
    IN  cond(e.size = 0, max_len_v, max_len_calc)

\* mem_block.rs: MemBlock::<E, L>::memory_layout(len)
memory_layout(e, l, len) ==
    LET l_size == size_align(l)[1]
        l_align == size_align(l)[2]
        dsize == size_align_array(e, len)[1]
        dalign == size_align_array(e, len)[2]
        calc_size == usize(aligned_size(l.size, dalign) + dsize)
        calc_align == max(l_align, dalign)
    IN  <<cond(len = 0, l_size, calc_size), cond(len = 0, l_align, calc_align)>>

IsPow2(n) == n \in {1, 2, 4, 8, 16, 32, 64, 128, 256}

\* core::alloc::Layout::from_size_align(size, align) is Ok
LayoutValid(size, align) ==
    /\ IsPow2(align)
    /\ size <= IsizeMax - (align - 1)


\* ================================================================ state

VARIABLES
    \* --- one exclusively owned array (SpecBuild)
    pc,      \* where the array's life is: idle, alloc, write_label, init,
             \* built, drop_label, drop_elems, dropped, panicked
    inp,     \* with_label's arguments: kind, lt, et, len, f
    blk,     \* the MemBlock: its memory, label and element slots
    hlen,    \* FatPtrArray.len, the length the fat handle carries
    cur,     \* the loop index of new_init / dealloc
    dlen,    \* the len argument dealloc was called with
    calls,   \* the generator calls made so far: <<[idx, seen], ...>>
    dlog,    \* destructor runs and frees so far: <<[k, i], ...>>
    panic,   \* "none", or which assertion failed
    obs,     \* the last operation on the built array and its outcome
    twin,    \* the array made by cloning the built one, if any
    \* --- reference-counted handles (SpecRc, Spec)
    rblk,    \* the shared blocks: state, count, contents, destructions
    hd,      \* the RcArray handles: state, pointer, owner
    th,      \* what each thread is in the middle of
    last,    \* the handle-level atomic operation of the last step, if any
    ub,      \* whether freed memory has been accessed
    nnull    \* how many explicit to_null calls have been made

buildVars == <<pc, inp, blk, hlen, cur, dlen, calls, dlog, panic, obs, twin>>

rcVars == <<rblk, hd, th, last, ub, nnull>>

vars == <<pc, inp, blk, hlen, cur, dlen, calls, dlog, panic, obs, twin,
          rblk, hd, th, last, ub, nnull>>

\* ------------------------------------------------------------- the block

Label0 == [even |-> 0, odd |-> 0]

NoBlock == [st |-> "none", size |-> 0, align |-> 1, labelInit |-> FALSE,
            lenField |-> 0, label |-> Label0,
            elems |-> [i \in Idx |-> 0], init |-> {}]

NoInput == [kind |-> "Fat", lt |-> "Zst", et |-> [size |-> 0, align |-> 1],
            len |-> 0, f |-> [i \in Idx |-> 1]]

\* No operation has been applied to the array.
NoObs == [op |-> "none", key |-> 0, val |-> 0, out |-> [tag |-> "None", val |-> 0],
          before |-> NoBlock, oob |-> FALSE, n |-> 0,
          null |-> FALSE, touched |-> FALSE]

\* The built array has not been cloned.  ptr tells the clone's block from
\* the source's, whose ptr is 0; dlog is the log of the destructor runs and
\* frees on the blocks the second array gave up in clone_from.
NoTwin == [st |-> "none", ptr |-> 0, blk |-> NoBlock, hlen |-> 0,
           dlog |-> <<>>]

\* The label type L of MemBlock<E, L> behind the array being built.
BlkLabel == BlockLabelDesc(inp.kind, inp.lt)

\* The generator of the doc example (fat.rs 48-59, thin.rs 51-62): counts
\* even and odd indices into the label and returns the element for index.
\* A zero-sized label holds no data, so nothing is counted into it.
GenLabel(lt, label, index) ==
    IF lt = "Zst" THEN label
    ELSE IF index % 2 = 0 THEN [label EXCEPT !.even = @ + 1]
                          ELSE [label EXCEPT !.odd = @ + 1]

GenItem(f, index) == f[index]

\* mem_block.rs get_ptr: assert!(idx < Self::max_len())
get_ptr_ok(idx) == idx < max_len(inp.et, BlkLabel)

\* A faulty variant of ptr_write: every item lands in slot 0.
ptr_write_bad(b, i, item) ==
    [b EXCEPT !.elems[0] = item, !.init = @ \cup {i}]

\* ptr::write(block_ref.get_ptr_mut(i), item)
ptr_write(b, i, item) ==
    [b EXCEPT !.elems[i] = item, !.init = @ \cup {i}]

\* ------------------------------------------------- construction, by step

\* FatPtrArray::with_label / ThinPtrArray::with_label enter
\* MemBlock::new_init(label, len, func).  A zero-sized element type has
\* one value only.
with_label(kind, lt, et, len, f) ==
    /\ pc = "idle"
    /\ et.size = 0 => f = [i \in Idx |-> 1]
    /\ inp' = [kind |-> kind, lt |-> lt, et |-> et, len |-> len, f |-> f]
    /\ pc' = "alloc"
    /\ UNCHANGED <<blk, hlen, cur, dlen, calls, dlog, panic>>
    /\ UNCHANGED <<obs, twin>>
    /\ UNCHANGED rcVars

\* MemBlock::alloc(len): the size assertion, the layout check, the
\* allocator (which may return null).
alloc ==
    /\ pc = "alloc"
    /\ LET lay == memory_layout(inp.et, BlkLabel, inp.len)
       IN  \E got \in BOOLEAN :
             IF ~(inp.len <= max_len(inp.et, BlkLabel))
             THEN /\ got
                  /\ panic' = "size" /\ pc' = "panicked" /\ blk' = blk
             ELSE IF ~LayoutValid(lay[1], lay[2])
             THEN /\ got
                  /\ panic' = "layout" /\ pc' = "panicked" /\ blk' = blk
             ELSE IF ~got
             THEN panic' = "null" /\ pc' = "panicked" /\ blk' = blk
             ELSE /\ blk' = [NoBlock EXCEPT !.st = "live",
                                            !.size = lay[1], !.align = lay[2]]
                  /\ pc' = "write_label"
                  /\ panic' = panic
    /\ UNCHANGED <<inp, hlen, cur, dlen, calls, dlog>>
    /\ UNCHANGED <<obs, twin>>
    /\ UNCHANGED rcVars

\* MemBlock::new(label, len) after alloc: the label is moved into the block
\* only when size_of::<L>() != 0; a label that was not moved is dropped
\* when new returns.
new ==
    /\ pc = "write_label"
    /\ IF BlkLabel.size # 0
       THEN /\ blk' = [blk EXCEPT !.labelInit = TRUE, !.label = Label0,
                         !.lenField = IF inp.kind = "Thin" THEN inp.len ELSE 0]
            /\ dlog' = dlog
       ELSE /\ blk' = blk
            /\ dlog' = Append(dlog, [k |-> "label_unmoved", i |-> 0])
    /\ cur' = 0
    /\ pc' = "init"
    /\ UNCHANGED <<inp, hlen, dlen, calls, panic>>
    /\ UNCHANGED <<obs, twin>>
    /\ UNCHANGED rcVars

\* A faulty variant of new_init_step: the indices are generated in descending order.
new_init_step_bad ==
    /\ pc = "init"
    /\ cur < inp.len
    /\ LET i == inp.len - 1 - cur
       IN /\ calls' = Append(calls, [idx |-> i, seen |-> blk.label])
          /\ blk' = ptr_write([blk EXCEPT !.label = GenLabel(inp.lt, @, i)],
                              i, GenItem(inp.f, i))
    /\ cur' = cur + 1
    /\ UNCHANGED <<pc, inp, hlen, dlen, dlog, panic>>
    /\ UNCHANGED <<obs, twin>>
    /\ UNCHANGED rcVars

\* One turn of new_init's loop: item = func(&mut block.label, i), then the
\* item is written to slot i (get_ptr_mut asserts i < max_len).
new_init_step ==
    /\ pc = "init"
    /\ cur < inp.len
    /\ calls' = Append(calls, [idx |-> cur, seen |-> blk.label])
    /\ IF get_ptr_ok(cur)
       THEN /\ blk' = ptr_write([blk EXCEPT !.label = GenLabel(inp.lt, @, cur)],
                                cur, GenItem(inp.f, cur))
            /\ cur' = cur + 1
            /\ UNCHANGED <<pc, panic>>
       ELSE /\ blk' = [blk EXCEPT !.label = GenLabel(inp.lt, @, cur)]
            /\ pc' = "panicked" /\ panic' = "index"
            /\ cur' = cur
    /\ UNCHANGED <<inp, hlen, dlen, dlog>>
    /\ UNCHANGED <<obs, twin>>
    /\ UNCHANGED rcVars

\* new_init returns the block; with_label wraps it (the fat handle stores
\* len beside the pointer).
new_init_return ==
    /\ pc = "init"
    /\ cur = inp.len
    /\ hlen' = IF inp.kind = "Fat" THEN inp.len ELSE 0
    /\ pc' = "built"
    /\ UNCHANGED <<inp, blk, cur, dlen, calls, dlog, panic>>
    /\ UNCHANGED <<obs, twin>>
    /\ UNCHANGED rcVars

\* ------------------------------------------------------------ observers

\* Container::len: fat.rs 109-111 (self.len), thin.rs 169-171
\* (self.data.label.len).
length == IF inp.kind = "Fat" THEN hlen ELSE blk.lenField

None == [tag |-> "None", val |-> 0]
Some(v) == [tag |-> "Some", val |-> v]
Panic == [tag |-> "Panic", val |-> 0]

\* What a read of memory that holds no element may yield.
Garbage == 0..MaxVal

\* What reading slot idx of the block yields: the element, or, where no
\* element was written, whatever the memory holds (g); a zero-sized element
\* is read without touching memory.
slot(idx, g) ==
    IF idx \in blk.init THEN blk.elems[idx]
    ELSE IF inp.et.size = 0 THEN 1 ELSE g

\* MemBlock::get(idx): the element at get_ptr(idx), which asserts
\* idx < max_len().
mem_get(kind, idx, g) ==
    IF idx < max_len(inp.et, BlockLabelDesc(kind, inp.lt))
    THEN Some(slot(idx, g)) ELSE Panic

\* A faulty variant of get_ptr: the index max_len() is let through.
get_ptr_bad(e, l, idx) ==
    IF idx <= max_len(e, l)
    THEN Some(aligned_size(l.size, e.align) + idx * e.size) ELSE Panic

\* A faulty variant of get_ptr: the elements start right after the label's
\* bytes, without the padding to the element's alignment.
get_ptr_unpadded(e, l, idx) ==
    IF idx < max_len(e, l) THEN Some(l.size + idx * e.size) ELSE Panic

\* MemBlock::get_ptr(idx) (mem_block.rs 135-149) as the byte offset of the
\* pointer it returns from the block's base: assert!(idx < max_len()),
\* then (self as *const u8).add(lsize) as *const E, then .add(idx).
get_ptr(e, l, idx) ==
    IF idx < max_len(e, l)
    THEN Some(aligned_size(l.size, e.align) + idx * e.size) ELSE Panic

\* MemBlock::get_ptr_mut(idx): self.get_ptr(idx) as *mut E
get_ptr_mut(e, l, idx) == get_ptr(e, l, idx)

\* Option::unwrap
unwrap(o) == IF o.tag = "None" THEN Panic ELSE o

\* CopyMap::get / get_mut for FatPtrArray (fat.rs 115-128), n = self.len().
fat_get(n, key, g) == IF key > n THEN None ELSE mem_get("Fat", key, g)

\* Index / IndexMut for FatPtrArray: self.get(idx).unwrap()
fat_index(n, idx, g) == unwrap(fat_get(n, idx, g))

\* Index / IndexMut for ThinPtrArray: assert!(idx < self.len()), then the
\* slot.
thin_index(n, idx, g) == IF idx < n THEN mem_get("Thin", idx, g) ELSE Panic

\* CopyMap::get / get_mut for ThinPtrArray (thin.rs 175-188)
thin_get(n, key, g) == IF key > n THEN None ELSE thin_index(n, key, g)

\* CopyMap::get on the array that was built.
get(key, g) ==
    IF inp.kind = "Fat" THEN fat_get(length, key, g)
                        ELSE thin_get(length, key, g)

\* Index::index on the array that was built.
index(idx, g) ==
    IF inp.kind = "Fat" THEN fat_index(length, idx, g)
                        ELSE thin_index(length, idx, g)

\* ----------------------------------------------------- destruction, by step

\* A faulty variant of drop: the thin array's length is taken as 0, as a
\* length read after the label was destroyed could be.
drop_bad ==
    /\ pc = "built"
    /\ dlen' = IF inp.kind = "Thin" THEN 0 ELSE length
    /\ pc' = "drop_label" /\ panic' = panic
    /\ UNCHANGED <<inp, blk, hlen, cur, calls, dlog>>
    /\ UNCHANGED <<obs, twin>>
    /\ UNCHANGED rcVars

\* Drop for FatPtrArray / ThinPtrArray: len is the handle's (Fat) or the
\* block's (Thin); dealloc(len) first asserts len <= max_len.
drop ==
    /\ pc = "built"
    /\ dlen' = length
    /\ IF length <= max_len(inp.et, BlkLabel)
       THEN pc' = "drop_label" /\ panic' = panic
       ELSE pc' = "panicked" /\ panic' = "size"
    /\ UNCHANGED <<inp, blk, hlen, cur, calls, dlog>>
    /\ UNCHANGED <<obs, twin>>
    /\ UNCHANGED rcVars

\* dealloc: ptr::drop_in_place(self.get_label_mut())
dealloc_label ==
    /\ pc = "drop_label"
    /\ dlog' = Append(dlog, [k |-> "label", i |-> 0])
    /\ blk' = [blk EXCEPT !.labelInit = FALSE]
    /\ cur' = 0
    /\ pc' = "drop_elems"
    /\ UNCHANGED <<inp, hlen, dlen, calls, panic>>
    /\ UNCHANGED <<obs, twin>>
    /\ UNCHANGED rcVars

\* A faulty variant of dealloc_elem: the elements are destroyed from the
\* last to the first.
dealloc_elem_bad ==
    /\ pc = "drop_elems"
    /\ cur < dlen
    /\ dlog' = Append(dlog, [k |-> "elem", i |-> dlen - 1 - cur])
    /\ blk' = [blk EXCEPT !.init = @ \ {dlen - 1 - cur}]
    /\ cur' = cur + 1
    /\ UNCHANGED <<pc, panic>>
    /\ UNCHANGED <<inp, hlen, dlen, calls>>
    /\ UNCHANGED <<obs, twin>>
    /\ UNCHANGED rcVars

\* dealloc: one turn of for i in 0..len { drop_in_place(get_ptr_mut(i)) }
dealloc_elem ==
    /\ pc = "drop_elems"
    /\ cur < dlen
    /\ IF get_ptr_ok(cur)
       THEN /\ dlog' = Append(dlog, [k |-> "elem", i |-> cur])
            /\ blk' = [blk EXCEPT !.init = @ \ {cur}]
            /\ cur' = cur + 1
            /\ UNCHANGED <<pc, panic>>
       ELSE /\ pc' = "panicked" /\ panic' = "index"
            /\ UNCHANGED <<dlog, blk, cur>>
    /\ UNCHANGED <<inp, hlen, dlen, calls>>
    /\ UNCHANGED <<obs, twin>>
    /\ UNCHANGED rcVars

\* A faulty variant of dealloc_lazy: the label is destroyed once more
\* before the memory is freed.
dealloc_lazy_bad ==
    /\ pc = "drop_elems"
    /\ cur = dlen
    /\ dlog' = dlog \o <<[k |-> "label", i |-> 0],
                         [k |-> "free", i |-> memory_layout(inp.et, BlkLabel, dlen)[1]]>>
    /\ blk' = [blk EXCEPT !.st = "freed"]
    /\ pc' = "dropped"
    /\ UNCHANGED <<inp, hlen, cur, dlen, calls, panic>>
    /\ UNCHANGED <<obs, twin>>
    /\ UNCHANGED rcVars

\* dealloc_lazy(len): the layout is computed again from len and the memory
\* is handed back to the allocator.
dealloc_lazy ==
    /\ pc = "drop_elems"
    /\ cur = dlen
    /\ LET lay == memory_layout(inp.et, BlkLabel, dlen)
       IN  IF LayoutValid(lay[1], lay[2])
           THEN /\ dlog' = Append(dlog, [k |-> "free", i |-> lay[1]])
                /\ blk' = [blk EXCEPT !.st = "freed"]
                /\ pc' = "dropped"
                /\ panic' = panic
           ELSE /\ pc' = "panicked" /\ panic' = "layout"
                /\ UNCHANGED <<dlog, blk>>
    /\ UNCHANGED <<inp, hlen, cur, dlen, calls>>
    /\ UNCHANGED <<obs, twin>>
    /\ UNCHANGED rcVars

\* ------------------------------------------- operations on a built array

\* The keys the operations are called with: in range, len and len + 1.
Keys == 0..(MaxLen + 1)

\* The call reached memory outside the element run: it got a slot at or
\* past len, of elements that occupy memory.
OutOfRun(o, key) == o.tag = "Some" /\ key >= length /\ inp.et.size # 0

\* A faulty variant of mem_replace: the old value is moved out and the new
\* one is not written.
mem_replace_bad(b, i, value) == [b EXCEPT !.init = @ \ {i}]

\* mem::replace(slot, value) on slot i of the element run
mem_replace(b, i, value) == [b EXCEPT !.elems[i] = value]

\* Container::len
array_len ==
    /\ pc = "built"
    /\ obs.n < MaxOps
    /\ obs' = [NoObs EXCEPT !.op = "len", !.out = Some(length),
                            !.before = blk, !.n = obs.n + 1]
    /\ UNCHANGED <<pc, inp, blk, hlen, cur, dlen, calls, dlog, panic, twin>>
    /\ UNCHANGED rcVars

\* CopyMap::get and get_mut (op names which)
array_get(op, key) ==
    /\ pc = "built"
    /\ obs.n < MaxOps
    /\ \E g \in Garbage :
         obs' = [NoObs EXCEPT !.op = op, !.key = key, !.out = get(key, g),
                              !.before = blk,
                              !.oob = OutOfRun(get(key, g), key),
                              !.n = obs.n + 1]
    /\ UNCHANGED <<pc, inp, blk, hlen, cur, dlen, calls, dlog, panic, twin>>
    /\ UNCHANGED rcVars

\* Index::index and IndexMut::index_mut (op names which)
array_index(op, idx) ==
    /\ pc = "built"
    /\ obs.n < MaxOps
    /\ \E g \in Garbage :
         obs' = [NoObs EXCEPT !.op = op, !.key = idx, !.out = index(idx, g),
                              !.before = blk,
                              !.oob = OutOfRun(index(idx, g), idx),
                              !.n = obs.n + 1]
    /\ UNCHANGED <<pc, inp, blk, hlen, cur, dlen, calls, dlog, panic, twin>>
    /\ UNCHANGED rcVars

\* CopyMap::insert: fat.rs 129-134 (match self.get_mut(key)), thin.rs
\* 189-195 (key > self.len(), else mem::replace(&mut self[key], value)).
\* A slot past the element run is replaced in memory that is not the
\* block's.
array_insert(key, value) ==
    /\ pc = "built"
    /\ obs.n < MaxOps
    /\ \E g \in Garbage :
         LET o == get(key, g)
         IN  /\ obs' = [NoObs EXCEPT !.op = "insert", !.key = key,
                                     !.val = value, !.out = o, !.before = blk,
                                     !.oob = OutOfRun(o, key),
                                     !.n = obs.n + 1]
             /\ blk' = IF o.tag = "Some" /\ key < length
                       THEN mem_replace(blk, key, value) ELSE blk
    /\ UNCHANGED <<pc, inp, hlen, cur, dlen, calls, dlog, panic, twin>>
    /\ UNCHANGED rcVars

\* The indices get_ptr is called with: the keys, and those around max_len().
PtrIdx ==
    Keys \cup {i \in {max_len(inp.et, BlkLabel) - 1, max_len(inp.et, BlkLabel),
                      max_len(inp.et, BlkLabel) + 1} : i >= 0}

\* get_ptr / get_ptr_mut called on the array's block (op names which).
block_get_ptr(op) ==
    /\ pc = "built"
    /\ obs.n < MaxOps
    /\ \E idx \in PtrIdx :
         obs' = [NoObs EXCEPT !.op = op, !.key = idx,
                              !.out = IF op = "get_ptr"
                                      THEN get_ptr(inp.et, BlkLabel, idx)
                                      ELSE get_ptr_mut(inp.et, BlkLabel, idx),
                              !.before = blk, !.n = obs.n + 1]
    /\ UNCHANGED <<pc, inp, blk, hlen, cur, dlen, calls, dlog, panic, twin>>
    /\ UNCHANGED rcVars

\* LabelledArray::get_label and get_label_mut (op names which): fat.rs
\* 173-187, thin.rs 231-236.
array_label(op) ==
    /\ pc = "built"
    /\ obs.n < MaxOps
    /\ obs' = [NoObs EXCEPT !.op = op, !.out = Some(blk.label),
                            !.before = blk, !.n = obs.n + 1]
    /\ UNCHANGED <<pc, inp, blk, hlen, cur, dlen, calls, dlog, panic, twin>>
    /\ UNCHANGED rcVars

\* ------------------------------------------- cloning an owned array

\* The block the clone's handle points to.
TwinBlk == IF twin.ptr = 0 THEN blk ELSE twin.blk

\* Container::len of the clone: the handle's len (Fat) or the block's (Thin).
TwinLen == IF inp.kind = "Fat" THEN twin.hlen ELSE TwinBlk.lenField

\* The copy MemBlock::clone(len) makes of block b: a new allocation with
\* the label's clone and, index by index, the clones of elements 0..len.
block_clone(b, n) ==
    [b EXCEPT !.st = "live",
              !.elems = [i \in Idx |-> IF i < n THEN b.elems[i] ELSE 0],
              !.init = {i \in Idx : i < n}]

\* A faulty variant of array_clone: the handle is copied and the block is
\* not.
array_clone_shallow ==
    /\ pc = "built"
    /\ twin.st = "none"
    /\ obs.n < MaxOps
    /\ twin' = [st |-> "live", ptr |-> 0, blk |-> NoBlock, hlen |-> hlen,
                dlog |-> <<>>]
    /\ obs' = [NoObs EXCEPT !.op = "clone", !.before = blk, !.n = obs.n + 1]
    /\ UNCHANGED <<pc, panic>>
    /\ UNCHANGED <<inp, blk, hlen, cur, dlen, calls, dlog>>
    /\ UNCHANGED rcVars

\* Clone::clone (fat.rs 81-86, thin.rs 136-141): data.clone(self.len()),
\* and for Fat the same len beside it.  The allocation may fail.
array_clone ==
    /\ pc = "built"
    /\ twin.st = "none"
    /\ obs.n < MaxOps
    /\ \E got \in BOOLEAN :
         IF got
         THEN /\ twin' = [st |-> "live", ptr |-> 1,
                          blk |-> block_clone(blk, length),
                          hlen |-> IF inp.kind = "Fat" THEN hlen ELSE 0,
                          dlog |-> <<>>]
              /\ obs' = [NoObs EXCEPT !.op = "clone", !.before = blk,
                                      !.n = obs.n + 1]
              /\ UNCHANGED <<pc, panic>>
         ELSE /\ pc' = "panicked" /\ panic' = "null"
              /\ UNCHANGED <<twin, obs>>
    /\ UNCHANGED <<inp, blk, hlen, cur, dlen, calls, dlog>>
    /\ UNCHANGED rcVars

\* The label and elements 0..n of block b overwritten by those of src
\* (label.clone_from, then self[i].clone_from(&source[i]) for i in 0..n).
copy_from(b, src, n) ==
    [b EXCEPT !.label = src.label,
              !.elems = [i \in Idx |-> IF i < n THEN src.elems[i] ELSE b.elems[i]]]

\* What dealloc(n) logs on a block of the array's types: the label's
\* destructor, those of elements 0..n in ascending order, and the free.
dealloc_run(n) ==
    <<[k |-> "label", i |-> 0]>>
    \o [i \in 1..n |-> [k |-> "elem", i |-> i - 1]]
    \o <<[k |-> "free", i |-> memory_layout(inp.et, BlkLabel, n)[1]]>>

\* A second array of the same types built on its own:
\* with_label(label, len, g) with another generator.
Gen1(et) == [i \in Idx |-> IF et.size = 0 THEN 1 ELSE 1 + ((i + 1) % MaxVal)]

twin_blk(len) ==
    LET lay == memory_layout(inp.et, BlkLabel, len)
    IN  [NoBlock EXCEPT
           !.st = "live", !.size = lay[1], !.align = lay[2],
           !.labelInit = BlkLabel.size # 0,
           !.lenField = IF inp.kind = "Thin" THEN len ELSE 0,
           !.label = IF inp.lt = "Zst" THEN Label0
                     ELSE [even |-> (len + 1) \div 2, odd |-> len \div 2],
           !.elems = [i \in Idx |-> IF i < len THEN GenItem(Gen1(inp.et), i)
                                              ELSE 0],
           !.init = {i \in Idx : i < len}]

twin_new(len) ==
    /\ pc = "built"
    /\ twin.st = "none"
    /\ len <= max_len(inp.et, BlkLabel)
    /\ LET lay == memory_layout(inp.et, BlkLabel, len)
       IN  LayoutValid(lay[1], lay[2])
    /\ twin' = [st |-> "live", ptr |-> 1, blk |-> twin_blk(len),
                hlen |-> IF inp.kind = "Fat" THEN len ELSE 0, dlog |-> <<>>]
    /\ UNCHANGED <<pc, inp, blk, hlen, cur, dlen, calls, dlog, panic, obs>>
    /\ UNCHANGED rcVars

\* A faulty variant of array_clone_from: with different lengths the block
\* that is replaced is not dropped.
array_clone_from_bad(to) ==
    /\ pc = "built"
    /\ twin.st = "live"
    /\ obs.n < MaxOps
    /\ IF to = "twin"
       THEN /\ twin' = IF TwinLen # length
                       THEN [twin EXCEPT !.ptr = @ + 1,
                                         !.blk = block_clone(blk, length),
                                         !.hlen = hlen]
                       ELSE IF twin.ptr = 0 THEN twin
                       ELSE [twin EXCEPT !.blk = copy_from(@, blk, length)]
            /\ UNCHANGED <<blk, hlen>>
       ELSE /\ blk' = IF TwinLen # length THEN block_clone(TwinBlk, TwinLen)
                      ELSE copy_from(blk, TwinBlk, TwinLen)
            /\ hlen' = IF inp.kind = "Fat" THEN twin.hlen ELSE hlen
            /\ UNCHANGED twin
    /\ obs' = [NoObs EXCEPT !.op = IF to = "twin" THEN "twin_clone_from"
                                                  ELSE "clone_from",
                            !.before = blk, !.n = obs.n + 1]
    /\ UNCHANGED <<pc, inp, cur, dlen, calls, dlog, panic>>
    /\ UNCHANGED rcVars

\* Clone::clone_from (fat.rs 87-96, thin.rs 142-151) between the two
\* arrays; to names the array that is written.  With different lengths
\* *self = source.clone(): the clone is made (its allocation may fail),
\* then the old value of self is dropped, dealloc(len) on its block.
array_clone_from(to) ==
    /\ pc = "built"
    /\ twin.st = "live"
    /\ obs.n < MaxOps
    /\ \E got \in BOOLEAN :
         IF TwinLen = length
         THEN /\ got
              /\ IF to = "twin"
                 THEN /\ twin' = IF twin.ptr = 0 THEN twin
                                 ELSE [twin EXCEPT !.blk = copy_from(@, blk, length)]
                      /\ blk' = blk
                 ELSE /\ blk' = copy_from(blk, TwinBlk, TwinLen)
                      /\ twin' = twin
              /\ UNCHANGED <<hlen, dlog, pc, panic>>
              /\ obs' = [NoObs EXCEPT !.op = IF to = "twin" THEN "twin_clone_from"
                                                            ELSE "clone_from",
                                      !.before = blk, !.n = obs.n + 1]
         ELSE IF ~got
         THEN /\ pc' = "panicked" /\ panic' = "null"
              /\ UNCHANGED <<twin, blk, hlen, dlog, obs>>
         ELSE /\ IF to = "twin"
                 THEN /\ twin' = [twin EXCEPT
                                    !.ptr = @ + 1,
                                    !.blk = block_clone(blk, length),
                                    !.hlen = hlen,
                                    !.dlog = @ \o dealloc_run(TwinLen)]
                      /\ UNCHANGED <<blk, hlen, dlog>>
                 ELSE /\ blk' = block_clone(TwinBlk, TwinLen)
                      /\ hlen' = IF inp.kind = "Fat" THEN twin.hlen ELSE hlen
                      /\ dlog' = dlog \o dealloc_run(length)
                      /\ twin' = twin
              /\ UNCHANGED <<pc, panic>>
              /\ obs' = [NoObs EXCEPT !.op = IF to = "twin" THEN "twin_clone_from"
                                                            ELSE "clone_from",
                                      !.before = blk, !.n = obs.n + 1]
    /\ UNCHANGED <<inp, cur, dlen, calls>>
    /\ UNCHANGED rcVars

\* The label after the caller wrote v through get_label_mut(): a label
\* without data has nothing to write.
label_written(label, v) ==
    IF inp.lt = "Zst" THEN label ELSE [label EXCEPT !.even = v]

\* A faulty variant of array_set_label: the accessor hands out the whole
\* block label, the embedded length included, and the write lands on both.
array_set_label_bad(v) ==
    /\ pc = "built"
    /\ obs.n < MaxOps
    /\ blk' = [blk EXCEPT !.label = label_written(@, v), !.lenField = v]
    /\ obs' = [NoObs EXCEPT !.op = "set_label", !.val = v, !.before = blk,
                            !.out = Some(blk.label), !.n = obs.n + 1]
    /\ UNCHANGED <<pc, inp, hlen, cur, dlen, calls, dlog, panic, twin>>
    /\ UNCHANGED rcVars

\* A write through get_label_mut() (fat.rs 185-187: &mut self.data.label;
\* thin.rs 234-236: &mut self.data.label.label).
array_set_label(v) ==
    /\ pc = "built"
    /\ obs.n < MaxOps
    /\ blk' = [blk EXCEPT !.label = label_written(@, v)]
    /\ obs' = [NoObs EXCEPT !.op = "set_label", !.val = v, !.before = blk,
                            !.out = Some(blk.label), !.n = obs.n + 1]
    /\ UNCHANGED <<pc, inp, hlen, cur, dlen, calls, dlog, panic, twin>>
    /\ UNCHANGED rcVars

\* The clone's block after b is put in its place.
twin_put(b) == IF twin.ptr = 0 THEN twin ELSE [twin EXCEPT !.blk = b]

\* CopyMap::get on the clone: the checks of get with the clone's length,
\* the slot of the clone's block.
twin_get(key, g) ==
    LET o == IF inp.kind = "Fat" THEN fat_get(TwinLen, key, g)
                                 ELSE thin_get(TwinLen, key, g)
    IN  IF o.tag = "Some" /\ key \in TwinBlk.init
        THEN Some(TwinBlk.elems[key]) ELSE o

\* CopyMap::insert on the clone
twin_insert(key, value) ==
    /\ twin.st = "live"
    /\ obs.n < MaxOps
    /\ \E g \in Garbage :
         LET o == twin_get(key, g)
             b == IF o.tag = "Some" /\ key < TwinLen
                  THEN mem_replace(TwinBlk, key, value) ELSE TwinBlk
         IN  /\ obs' = [NoObs EXCEPT !.op = "twin_insert", !.key = key,
                                     !.val = value, !.out = o,
                                     !.before = TwinBlk,
                                     !.oob = /\ o.tag = "Some"
                                             /\ key >= TwinLen
                                             /\ inp.et.size # 0,
                                     !.n = obs.n + 1]
             /\ twin' = twin_put(b)
             /\ blk' = IF twin.ptr = 0 THEN b ELSE blk
    /\ UNCHANGED <<pc, inp, hlen, cur, dlen, calls, dlog, panic>>
    /\ UNCHANGED rcVars

\* A write through get_label_mut() of the clone
twin_set_label(v) ==
    /\ twin.st = "live"
    /\ obs.n < MaxOps
    /\ LET b == [TwinBlk EXCEPT !.label = label_written(@, v)]
       IN  /\ obs' = [NoObs EXCEPT !.op = "twin_set_label", !.val = v,
                                   !.before = TwinBlk,
                                   !.out = Some(TwinBlk.label),
                                   !.n = obs.n + 1]
           /\ twin' = twin_put(b)
           /\ blk' = IF twin.ptr = 0 THEN b ELSE blk
    /\ UNCHANGED <<pc, inp, hlen, cur, dlen, calls, dlog, panic>>
    /\ UNCHANGED rcVars

\* Drop of the clone: dealloc(len) destroys its label and elements and
\* frees its block.
twin_drop ==
    /\ twin.st = "live"
    /\ LET b == [TwinBlk EXCEPT !.st = "freed", !.labelInit = FALSE,
                                !.init = {}]
       IN  /\ twin' = [twin_put(b) EXCEPT !.st = "dropped"]
           /\ blk' = IF twin.ptr = 0 THEN b ELSE blk
    /\ UNCHANGED <<pc, inp, hlen, cur, dlen, calls, dlog, panic, obs>>
    /\ UNCHANGED rcVars

InitBuild ==
    /\ pc = "idle"
    /\ inp = NoInput
    /\ blk = NoBlock
    /\ hlen = 0
    /\ cur = 0
    /\ dlen = 0
    /\ calls = <<>>
    /\ dlog = <<>>
    /\ panic = "none"
    /\ obs = NoObs
    /\ twin = NoTwin

NextBuild ==
    \/ \E kind \in Kinds, lt \in LabelTypes, et \in ElemTypes,
          len \in 0..MaxLen, f \in [Idx -> Vals] :
            with_label(kind, lt, et, len, f)
    \/ alloc
    \/ new
    \/ new_init_step
    \/ new_init_return
    \/ drop
    \/ dealloc_label
    \/ dealloc_elem
    \/ dealloc_lazy

\* ===================================================== reference counting

B == 1..NBlocks
\* The handles a run has room for.
H == DOMAIN hd
Threads == 1..NThreads

\* The null pointer of A::null_ref().
Null == 0

\* The contents block b was built with (with_label(label, len, g)).
RcLen(b) == b + 1
RcLabel(b) == 10 + b
RcElems(b) == [i \in 1..RcLen(b) |-> 10 * b + i]

\* RefCounter::new(label): the count starts at 1.
rc_new == 1

\* RefCounter::increment / decrement on the count in the block's label:
\* atomic fetch-and-modify, yielding the count after the change.
increment(cnt) == (cnt + 1) % Pow2(WordBits)

decrement(cnt) == (cnt - 1) % Pow2(WordBits)

NoHandle == [st |-> "free", ptr |-> Null, owner |-> 0]

\* A handle that was dropped, and one that was passed to mem::forget.
Gone == [st |-> "gone", ptr |-> Null, owner |-> 0]

Forgotten == [st |-> "forgotten", ptr |-> Null, owner |-> 0]

Idle == [op |-> "idle", h |-> 0, r |-> 0]

NoOp == [op |-> "none", t |-> 0, ok |-> FALSE, cur |-> Null, new |-> Null,
         before |-> Null, ret |-> Null, hnew |-> 0, hret |-> 0]

\* BaseArrayRef::is_null of the wrapped array (generic.rs 57-59).
is_null(h) == hd[h].ptr = Null

\* A handle some thread is in the middle of to_null / drop on.
Dropping(h) == \E t \in Threads : th[t].op \in {"drop", "to_null"} /\ th[t].h = h

\* A handle some thread holds a shared borrow of (a clone in progress).
Borrowed(h) == \E t \in Threads : th[t].op = "clone" /\ th[t].h = h

\* The handle a call may move or mutate: owned by t, alive, not in use.
Owned(t, h) ==
    /\ hd[h].st = "live"
    /\ hd[h].owner = t
    /\ ~Dropping(h)
    /\ ~Borrowed(h)

FreeIds == {h \in H : hd[h].st = "free"}

NewId == CHOOSE h \in FreeIds : \A g \in FreeIds : h <= g

\* A faulty variant of is_last: the last but one handle destroys too.
is_last_bad(ref_count) == ref_count <= 1

\* generic.rs 93: the block is destroyed when the decremented count is 0
is_last(ref_count) == ref_count = 0

\* Drop of the wrapped array (fat.rs 99-106, thin.rs 154-163): dealloc(len)
\* runs the label's and the elements' destructors and frees the block.
destroy(bs, b) ==
    [bs EXCEPT ![b].st = "freed", ![b].destroyed = @ + 1,
               ![b].len = 0, ![b].label = 0, ![b].elems = <<>>]

\* A faulty variant of clone_begin: the clone of a null handle is counted
\* on the first block.
clone_begin_bad(t, h) ==
    /\ th[t].op = "idle"
    /\ hd[h].st = "live"
    /\ ~Dropping(h)
    /\ FreeIds # {}
    /\ IF is_null(h)
       THEN /\ hd' = [hd EXCEPT ![NewId] = [st |-> "live", ptr |-> Null,
                                            owner |-> t]]
            /\ th' = th
            /\ rblk' = [rblk EXCEPT ![1].cnt = increment(@)]
            /\ last' = [NoOp EXCEPT !.op = "clone", !.t = t, !.hnew = h,
                                    !.hret = NewId]
       ELSE /\ th' = [th EXCEPT ![t] = [op |-> "clone", h |-> h, r |-> 0]]
            /\ hd' = hd
            /\ rblk' = rblk
            /\ last' = NoOp
    /\ UNCHANGED <<ub, nnull>>
    /\ UNCHANGED buildVars

\* Clone::clone, first half: if self.is_null() { Self::null_ref() }
clone_begin(t, h) ==
    /\ th[t].op = "idle"
    /\ hd[h].st = "live"
    /\ ~Dropping(h)
    /\ FreeIds # {}
    /\ IF is_null(h)
       THEN /\ hd' = [hd EXCEPT ![NewId] = [st |-> "live", ptr |-> Null,
                                            owner |-> t]]
            /\ th' = th
            /\ last' = [NoOp EXCEPT !.op = "clone", !.t = t, !.hnew = h,
                                    !.hret = NewId]
       ELSE /\ th' = [th EXCEPT ![t] = [op |-> "clone", h |-> h, r |-> 0]]
            /\ hd' = hd
            /\ last' = NoOp
    /\ UNCHANGED <<rblk, ub, nnull>>
    /\ UNCHANGED buildVars

\* A faulty variant of clone_inc: the count is incremented and a handle to
\* no block is returned.
clone_inc_unlinked(t) ==
    /\ th[t].op = "clone"
    /\ FreeIds # {}
    /\ LET b == hd[th[t].h].ptr
       IN  /\ rblk' = [rblk EXCEPT ![b].cnt = increment(@),
                                   ![b].clones = @ + 1,
                                   ![b].cloners = @ \cup {t}]
           /\ hd' = [hd EXCEPT ![NewId] = [st |-> "live", ptr |-> Null,
                                           owner |-> t]]
    /\ th' = [th EXCEPT ![t] = Idle]
    /\ last' = NoOp
    /\ UNCHANGED <<ub, nnull>>
    /\ UNCHANGED buildVars

\* A faulty variant of clone_inc: the handle is copied without the increment.
clone_inc_bad(t) ==
    /\ th[t].op = "clone"
    /\ FreeIds # {}
    /\ hd' = [hd EXCEPT ![NewId] = [st |-> "live", ptr |-> hd[th[t].h].ptr,
                                    owner |-> t]]
    /\ rblk' = [rblk EXCEPT ![hd[th[t].h].ptr].clones = @ + 1,
                            ![hd[th[t].h].ptr].cloners = @ \cup {t}]
    /\ th' = [th EXCEPT ![t] = Idle]
    /\ last' = NoOp
    /\ UNCHANGED <<ub, nnull>>
    /\ UNCHANGED buildVars

\* A faulty variant of clone_inc: the increment waits until no other
\* thread is inside an operation on a handle.
clone_inc_wait(t) ==
    /\ th[t].op = "clone"
    /\ \A u \in Threads \ {t} : th[u].op = "idle"
    /\ FreeIds # {}
    /\ LET b == hd[th[t].h].ptr
       IN  /\ IF rblk[b].st = "live"
              THEN /\ rblk' = [rblk EXCEPT ![b].cnt = increment(@),
                                           ![b].clones = @ + 1,
                                           ![b].cloners = @ \cup {t}]
                   /\ ub' = ub
              ELSE rblk' = rblk /\ ub' = TRUE
           /\ hd' = [hd EXCEPT ![NewId] = [st |-> "live", ptr |-> b,
                                           owner |-> t]]
    /\ th' = [th EXCEPT ![t] = Idle]
    /\ last' = NoOp
    /\ UNCHANGED nnull
    /\ UNCHANGED buildVars

\* Clone::clone, second half: get_label().increment(), then
\* mem::transmute_copy(self).  Incrementing a count in freed memory is
\* undefined.
clone_inc(t) ==
    /\ th[t].op = "clone"
    /\ FreeIds # {}
    /\ LET b == hd[th[t].h].ptr
       IN  /\ IF rblk[b].st = "live"
              THEN /\ rblk' = [rblk EXCEPT ![b].cnt = increment(@),
                                           ![b].clones = @ + 1,
                                           ![b].cloners = @ \cup {t}]
                   /\ ub' = ub
              ELSE rblk' = rblk /\ ub' = TRUE
           /\ hd' = [hd EXCEPT ![NewId] = [st |-> "live", ptr |-> b,
                                           owner |-> t]]
    /\ th' = [th EXCEPT ![t] = Idle]
    /\ last' = NoOp
    /\ UNCHANGED nnull
    /\ UNCHANGED buildVars

\* A faulty variant of to_null_dec: a null handle is not told apart and the
\* count is read through the null pointer.
to_null_dec_bad(t, h, op) ==
    /\ th[t].op = "idle"
    /\ Owned(t, h)
    /\ IF is_null(h)
       THEN /\ hd' = IF op = "drop" THEN [hd EXCEPT ![h] = Gone] ELSE hd
            /\ ub' = TRUE
            /\ UNCHANGED <<rblk, th>>
       ELSE LET b == hd[h].ptr
            IN  /\ rblk' = [rblk EXCEPT ![b].cnt = decrement(@)]
                /\ th' = [th EXCEPT ![t] =
                            [op |-> op, h |-> h, r |-> decrement(rblk[b].cnt)]]
                /\ UNCHANGED <<hd, ub>>
    /\ nnull' = IF op = "to_null" THEN nnull + 1 ELSE nnull
    /\ last' = NoOp
    /\ UNCHANGED buildVars

\* ArrayRef::to_null, first half (op is "drop" when Drop::drop calls it):
\* return if null, else decrement the count.  A count read from freed
\* memory is any value: zero or not.
to_null_dec(t, h, op) ==
    /\ th[t].op = "idle"
    /\ Owned(t, h)
    /\ IF is_null(h)
       THEN /\ hd' = IF op = "drop" THEN [hd EXCEPT ![h] = Gone] ELSE hd
            /\ UNCHANGED <<rblk, th, ub>>
       ELSE LET b == hd[h].ptr
            IN  IF rblk[b].st = "live"
                THEN /\ rblk' = [rblk EXCEPT ![b].cnt = decrement(@)]
                     /\ th' = [th EXCEPT ![t] =
                                 [op |-> op, h |-> h, r |-> decrement(rblk[b].cnt)]]
                     /\ UNCHANGED <<hd, ub>>
                ELSE /\ \E r \in {0, 1} :
                          th' = [th EXCEPT ![t] = [op |-> op, h |-> h, r |-> r]]
                     /\ ub' = TRUE
                     /\ UNCHANGED <<rblk, hd>>
    /\ nnull' = IF op = "to_null" THEN nnull + 1 ELSE nnull
    /\ last' = NoOp
    /\ UNCHANGED buildVars

\* ArrayRef::to_null, second half: if ref_count == 0, the wrapped array is
\* replaced by null_ref() and dropped.  Drop::drop then ends the handle.
to_null_fin(t) ==
    /\ th[t].op \in {"drop", "to_null"}
    /\ LET h == th[t].h
           b == hd[h].ptr
           nulled == IF is_last(th[t].r) THEN [hd EXCEPT ![h].ptr = Null]
                                         ELSE hd
       IN  /\ rblk' = IF is_last(th[t].r) THEN destroy(rblk, b) ELSE rblk
           /\ hd' = IF th[t].op = "drop" THEN [nulled EXCEPT ![h] = Gone]
                                          ELSE nulled
    /\ th' = [th EXCEPT ![t] = Idle]
    /\ last' = NoOp
    /\ UNCHANGED <<ub, nnull>>
    /\ UNCHANGED buildVars

\* Drop for RcArray (generic.rs 141-143)
rc_drop(t, h) == to_null_dec(t, h, "drop")

\* ArrayRef::to_null called by the handle's owner (generic.rs 88-97)
to_null(t, h) ==
    /\ nnull < MaxToNull
    /\ to_null_dec(t, h, "to_null")

\* ArrayRef::null_ref (generic.rs 99-101)
null_ref(t) ==
    /\ th[t].op = "idle"
    /\ FreeIds # {}
    /\ hd' = [hd EXCEPT ![NewId] = [st |-> "live", ptr |-> Null,
                                    owner |-> t]]
    /\ last' = NoOp
    /\ UNCHANGED <<rblk, th, ub, nnull>>
    /\ UNCHANGED buildVars

\* ------------------------------------------- handle-level atomic operations

\* The handle used as the shared slot (&self of the atomic operations).
Slot == CHOOSE h \in H : \A g \in H : h <= g

\* The slot can be operated on: it is alive and wraps a thin pointer.
SlotReady ==
    /\ hd[Slot].st = "live"
    /\ ~Dropping(Slot)
    /\ \A b \in B : rblk[b].kind = "Thin"

\* thin.rs 101-103: as_atomic builds a new AtomicPtr from a copy of the
\* handle's pointer; the value below is what that new atomic holds.
as_atomic(s) == hd[s].ptr

\* core::sync::atomic::AtomicPtr on a cell holding a: the result and the
\* cell's value afterwards.
ap_compare_exchange(a, c, n) ==
    IF a = c THEN [ok |-> TRUE, ret |-> a, cell |-> n]
             ELSE [ok |-> FALSE, ret |-> a, cell |-> a]

ap_swap(a, p) == [ret |-> a, cell |-> p]

ap_store(a, p) == [cell |-> p]

ap_load(a) == a

\* RcArray::to_ref / ThinPtrArray::to_ref: the handle is forgotten, its
\* pointer is passed on and its count is not touched.
to_ref(hs, h) == [hs EXCEPT ![h] = Forgotten]

\* RcArray::from_ref(ThinPtrArray::from_raw(p)): a handle around p.
from_raw(hs, id, t, p) ==
    [hs EXCEPT ![id] = [st |-> "live", ptr |-> p, owner |-> t]]

\* compare_exchange / compare_exchange_weak (generic.rs 309-332, thin.rs
\* 267-298): the exchange is done on the atomic as_atomic returns, which
\* is dropped when the call returns.  The weak form may fail spuriously.
compare_exchange(t, c, n, weak) ==
    /\ th[t].op = "idle"
    /\ SlotReady
    /\ c # n /\ c # Slot /\ n # Slot
    /\ Owned(t, c) /\ Owned(t, n)
    /\ FreeIds # {}
    /\ \E spurious \in {FALSE, weak} :
         LET tmp == as_atomic(Slot)
             res == IF spurious THEN [ok |-> FALSE, ret |-> tmp, cell |-> tmp]
                    ELSE ap_compare_exchange(tmp, hd[c].ptr, hd[n].ptr)
         IN  /\ hd' = from_raw(to_ref(to_ref(hd, c), n), NewId, t, res.ret)
             /\ last' = [op |-> IF weak THEN "compare_exchange_weak"
                                        ELSE "compare_exchange",
                         t |-> t, ok |-> res.ok, cur |-> hd[c].ptr,
                         new |-> hd[n].ptr, before |-> hd[Slot].ptr,
                         ret |-> res.ret, hnew |-> n, hret |-> NewId]
    /\ UNCHANGED <<rblk, th, ub, nnull>>
    /\ UNCHANGED buildVars

\* compare_and_swap (generic.rs 306-308, thin.rs 261-266)
compare_and_swap(t, c, n) ==
    /\ th[t].op = "idle"
    /\ SlotReady
    /\ c # n /\ c # Slot /\ n # Slot
    /\ Owned(t, c) /\ Owned(t, n)
    /\ FreeIds # {}
    /\ LET tmp == as_atomic(Slot)
           res == ap_compare_exchange(tmp, hd[c].ptr, hd[n].ptr)
       IN  /\ hd' = from_raw(to_ref(to_ref(hd, c), n), NewId, t, res.ret)
           /\ last' = [op |-> "compare_and_swap",
                       t |-> t, ok |-> res.ok, cur |-> hd[c].ptr,
                       new |-> hd[n].ptr, before |-> hd[Slot].ptr,
                       ret |-> res.ret, hnew |-> n, hret |-> NewId]
    /\ UNCHANGED <<rblk, th, ub, nnull>>
    /\ UNCHANGED buildVars

\* load (generic.rs 333-335, thin.rs 299-301)
load(t) ==
    /\ th[t].op = "idle"
    /\ SlotReady
    /\ FreeIds # {}
    /\ LET tmp == as_atomic(Slot)
       IN  /\ hd' = from_raw(hd, NewId, t, ap_load(tmp))
           /\ last' = [NoOp EXCEPT !.op = "load", !.t = t,
                         !.before = hd[Slot].ptr, !.ret = ap_load(tmp),
                         !.hret = NewId]
    /\ UNCHANGED <<rblk, th, ub, nnull>>
    /\ UNCHANGED buildVars

\* store (generic.rs 336-338, thin.rs 302-304)
store(t, p) ==
    /\ th[t].op = "idle"
    /\ SlotReady
    /\ p # Slot
    /\ Owned(t, p)
    /\ hd' = to_ref(hd, p)
    /\ last' = [NoOp EXCEPT !.op = "store", !.t = t, !.new = hd[p].ptr,
                  !.before = hd[Slot].ptr, !.hnew = p]
    /\ UNCHANGED <<rblk, th, ub, nnull>>
    /\ UNCHANGED buildVars

\* swap (generic.rs 339-341, thin.rs 305-307)
swap(t, p) ==
    /\ th[t].op = "idle"
    /\ SlotReady
    /\ p # Slot
    /\ Owned(t, p)
    /\ FreeIds # {}
    /\ LET tmp == as_atomic(Slot)
           res == ap_swap(tmp, hd[p].ptr)
       IN  /\ hd' = from_raw(to_ref(hd, p), NewId, t, res.ret)
           /\ last' = [NoOp EXCEPT !.op = "swap", !.t = t, !.new = hd[p].ptr,
                         !.before = hd[Slot].ptr, !.ret = res.ret,
                         !.hnew = p, !.hret = NewId]
    /\ UNCHANGED <<rblk, th, ub, nnull>>
    /\ UNCHANGED buildVars

\* ------------------------------------- operations through an RcArray handle

\* The capability-layer operations RcArray forwards to the wrapped array.
RcOps == {"index", "index_mut", "get", "get_mut", "insert", "add", "len",
          "get_label", "get_label_mut"}

\* The panic of check_null's assertion:
\* "Null dereference of naively reference-counted array".
NullDeref == [tag |-> "NullDeref", val |-> 0]

\* The return of a call that yields ().
Unit == [tag |-> "Unit", val |-> 0]

\* A faulty variant of check_null: the assertion is left out.
check_null_bad(h) == TRUE

\* generic.rs 26-31: assert!(!self.is_null(), ..); TRUE when the call goes on.
check_null(h) == ~is_null(h)

\* self.data[idx] on the wrapped array of block b: thin.rs 114-129 asserts
\* idx < len; fat.rs 137-148 is get(idx).unwrap(), which lets idx = len
\* through to the memory after the last element (g).
inner_index(b, idx, g) ==
    IF rblk[b].kind = "Thin"
    THEN IF idx < rblk[b].len THEN Some(rblk[b].elems[idx + 1]) ELSE Panic
    ELSE IF idx > rblk[b].len THEN Panic
         ELSE IF idx < rblk[b].len THEN Some(rblk[b].elems[idx + 1])
         ELSE Some(g)

\* The block after value is written to the slot o refers to.
rc_write(b, idx, o, value) ==
    IF o.tag = "Some" /\ idx < rblk[b].len
    THEN [rblk EXCEPT ![b].elems[idx + 1] = value] ELSE rblk

\* A faulty variant of rc_body: the label accessors hand out the count
\* kept beside the user's label.
rc_body_bad(b, op, key, value, g) ==
    LET i == inner_index(b, key, g)
        o == IF key > rblk[b].len THEN None ELSE i
    IN  IF op \in {"index", "index_mut"}
        THEN [out |-> i, rblk |-> rblk, read |-> TRUE, ub |-> FALSE]
        ELSE IF op \in {"get", "get_mut"}
        THEN [out |-> o, rblk |-> rblk, read |-> TRUE, ub |-> FALSE]
        ELSE IF op = "insert"
        THEN [out |-> o, rblk |-> rc_write(b, key, o, value), read |-> TRUE,
              ub |-> FALSE]
        ELSE IF op = "add"
        THEN [out |-> IF i.tag = "Panic" THEN Panic ELSE Unit,
              rblk |-> rc_write(b, key, i, value), read |-> TRUE,
              ub |-> FALSE]
        ELSE IF op = "len"
        THEN [out |-> Some(rblk[b].len), rblk |-> rblk, read |-> TRUE,
              ub |-> FALSE]
        ELSE [out |-> Some(rblk[b].cnt), rblk |-> rblk, read |-> TRUE,
              ub |-> FALSE]

\* The body of an operation after check_null, on the live block b:
\* generic.rs 113-117, 128-131 (index, index_mut), 154-161 (add, len),
\* 172-198 (get, get_mut, insert), 229-236 (get_label, get_label_mut).
rc_body(b, op, key, value, g) ==
    LET i == inner_index(b, key, g)
        o == IF key > rblk[b].len THEN None ELSE i
    IN  IF op \in {"index", "index_mut"}
        THEN [out |-> i, rblk |-> rblk, read |-> TRUE, ub |-> FALSE]
        ELSE IF op \in {"get", "get_mut"}
        THEN [out |-> o, rblk |-> rblk, read |-> TRUE, ub |-> FALSE]
        ELSE IF op = "insert"
        THEN [out |-> o, rblk |-> rc_write(b, key, o, value), read |-> TRUE,
              ub |-> FALSE]
        ELSE IF op = "add"
        THEN [out |-> IF i.tag = "Panic" THEN Panic ELSE Unit,
              rblk |-> rc_write(b, key, i, value), read |-> TRUE,
              ub |-> FALSE]
        ELSE IF op = "len"
        THEN [out |-> Some(rblk[b].len), rblk |-> rblk, read |-> TRUE,
              ub |-> FALSE]
        ELSE [out |-> Some(rblk[b].label), rblk |-> rblk, read |-> TRUE,
              ub |-> FALSE]

\* One call through handle h.  Past check_null, a null or dangling pointer
\* is dereferenced: undefined, the call yields whatever the memory holds.
rc_call(h, op, key, value, g) ==
    IF ~check_null(h)
    THEN [out |-> NullDeref, rblk |-> rblk, read |-> FALSE, ub |-> FALSE]
    ELSE IF is_null(h)
    THEN [out |-> Some(g), rblk |-> rblk, read |-> TRUE, ub |-> TRUE]
    ELSE IF rblk[hd[h].ptr].st # "live"
    THEN [out |-> Some(g), rblk |-> rblk, read |-> TRUE, ub |-> TRUE]
    ELSE rc_body(hd[h].ptr, op, key, value, g)

\* The call reads memory that holds no element of a live block.
ReadsStray(h, op, key) ==
    /\ check_null(h)
    /\ \/ is_null(h)
       \/ rblk[hd[h].ptr].st # "live"
       \/ /\ rblk[hd[h].ptr].kind = "Fat"
          /\ key = rblk[hd[h].ptr].len
          /\ op \in {"index", "index_mut", "get", "get_mut", "insert"}

\* The arguments an operation takes: a key for the indexed ones, a value
\* for the writing ones (0 stands for no argument).
KeysOf(op) == IF op \in {"len", "get_label", "get_label_mut"} THEN {0} ELSE Keys

ValsOf(op) == IF op \in {"insert", "add"} THEN Vals ELSE {0}

\* An indexing, length or label operation called by the handle's owner.
rc_access(t, h) ==
    /\ th[t].op = "idle"
    /\ Owned(t, h)
    /\ obs.n < MaxAcc
    /\ \E op \in RcOps :
       \E key \in KeysOf(op), value \in ValsOf(op) :
       \E g \in IF ReadsStray(h, op, key) THEN Garbage ELSE {0} :
         LET r == rc_call(h, op, key, value, g)
         IN  /\ obs' = [NoObs EXCEPT !.op = op, !.key = key, !.val = value,
                                     !.out = r.out, !.null = is_null(h),
                                     !.touched = r.read \/ r.rblk # rblk,
                                     !.n = obs.n + 1]
             /\ rblk' = r.rblk
             /\ ub' = (ub \/ r.ub)
    /\ last' = NoOp
    /\ UNCHANGED <<hd, th, nnull>>
    /\ UNCHANGED <<pc, inp, blk, hlen, cur, dlen, calls, dlog, panic, twin>>

InitRc ==
    /\ \E k \in Kinds :
         rblk = [b \in B |-> [st |-> "live", kind |-> k, cnt |-> rc_new,
                              destroyed |-> 0, clones |-> 0, cloners |-> {},
                              len |-> RcLen(b),
                              label |-> RcLabel(b), elems |-> RcElems(b)]]
    /\ hd = [h \in 1..NHandles |-> IF h \in B
                          THEN [st |-> "live", ptr |-> h,
                                owner |-> ((h - 1) % NThreads) + 1]
                          ELSE NoHandle]
    /\ th = [t \in Threads |-> Idle]
    /\ last = NoOp
    /\ ub = FALSE
    /\ nnull = 0

NextRc ==
    \/ \E t \in Threads, h \in H : clone_begin(t, h)
    \/ \E t \in Threads : clone_inc(t)
    \/ \E t \in Threads, h \in H : rc_drop(t, h)
    \/ \E t \in Threads : to_null_fin(t)

Init == InitBuild /\ InitRc

SpecBuild == Init /\ [][NextBuild]_vars

SpecRc == Init /\ [][NextRc]_vars

\* The generator SpecOps builds its arrays with: 1, 2, .., MaxVal, 1, ..
Gen0(et) == [i \in Idx |-> IF et.size = 0 THEN 1 ELSE 1 + (i % MaxVal)]

NextOps ==
    \/ \E kind \in Kinds, lt \in LabelTypes, et \in ElemTypes, len \in 0..MaxLen :
            with_label(kind, lt, et, len, Gen0(et))
    \/ alloc
    \/ new
    \/ new_init_step
    \/ new_init_return
    \/ drop
    \/ dealloc_label
    \/ dealloc_elem
    \/ dealloc_lazy
    \/ array_len
    \/ \E op \in {"get", "get_mut"}, key \in Keys : array_get(op, key)
    \/ \E op \in {"index", "index_mut"}, idx \in Keys : array_index(op, idx)
    \/ \E key \in Keys, value \in Vals : array_insert(key, value)
    \/ \E op \in {"get_label", "get_label_mut"} : array_label(op)
    \/ \E op \in {"get_ptr", "get_ptr_mut"} : block_get_ptr(op)

\* SpecOps starts with thin-backed shared blocks, which it never touches.
InitOps == Init /\ \A b \in B : rblk[b].kind = "Thin"

SpecOps == InitOps /\ [][NextOps]_vars

\* Handles made null (null_ref, or to_null on the first handle) and
\* operated on by their owners.
NextAcc ==
    \/ \E t \in Threads : null_ref(t)
    \/ \E t \in Threads : to_null(t, Slot)
    \/ \E t \in Threads : to_null_fin(t)
    \/ \E t \in Threads, h \in H : rc_access(t, h)

SpecAcc == Init /\ [][NextAcc]_vars

\* An array built, cloned, and the two written and dropped.
NextClone ==
    \/ \E kind \in Kinds, lt \in LabelTypes, et \in ElemTypes, len \in 0..MaxLen :
            with_label(kind, lt, et, len, Gen0(et))
    \/ alloc
    \/ new
    \/ new_init_step
    \/ new_init_return
    \/ array_clone
    \/ \E to \in {"twin", "self"} : array_clone_from(to)
    \/ \E key \in Keys, value \in Vals : array_insert(key, value)
    \/ \E v \in Vals : array_set_label(v)
    \/ array_label("get_label")
    \/ array_len
    \/ \E op \in {"get", "get_mut"}, key \in Keys : array_get(op, key)
    \/ \E idx \in Keys : array_index("index", idx)
    \/ \E key \in Keys, value \in Vals : twin_insert(key, value)
    \/ \E v \in Vals : twin_set_label(v)
    \/ twin_drop
    \/ drop
    \/ dealloc_label
    \/ dealloc_elem
    \/ dealloc_lazy

SpecClone == InitOps /\ [][NextClone]_vars

\* Two arrays of the same types, the second a clone of the first or built
\* on its own with any length, and clone_from between them.
NextFrom ==
    \/ \E kind \in Kinds, lt \in LabelTypes, et \in ElemTypes, len \in 0..MaxLen :
            with_label(kind, lt, et, len, Gen0(et))
    \/ alloc
    \/ new
    \/ new_init_step
    \/ new_init_return
    \/ array_clone
    \/ \E len \in 0..MaxLen : twin_new(len)
    \/ \E to \in {"twin", "self"} : array_clone_from(to)
    \/ \E v \in Vals : array_set_label(v)
    \/ twin_drop

SpecFrom == InitOps /\ [][NextFrom]_vars

\* Two threads take clones of the slot and exchange on it.
InitCas ==
    /\ InitBuild
    /\ rblk = [b \in B |-> [st |-> "live", kind |-> "Thin", cnt |-> rc_new,
                            destroyed |-> 0, clones |-> 0, cloners |-> {},
                            len |-> RcLen(b),
                            label |-> RcLabel(b), elems |-> RcElems(b)]]
    /\ hd = [h \in 1..NCasHandles |->
                IF h \in B THEN [st |-> "live", ptr |-> h,
                                 owner |-> ((h - 1) % NThreads) + 1]
                           ELSE NoHandle]
    /\ th = [t \in Threads |-> Idle]
    /\ last = NoOp
    /\ ub = FALSE
    /\ nnull = 0

NextCas ==
    \/ \E t \in Threads : clone_begin(t, Slot)
    \/ \E t \in Threads : clone_inc(t)
    \/ \E t \in Threads : null_ref(t)
    \/ \E t \in Threads, c \in H, n \in H : compare_exchange(t, c, n, FALSE)

SpecCas == InitCas /\ [][NextCas]_vars

\* Handles cloned and dropped, and the handle-level atomic operations on
\* the slot; no explicit to_null.
NextAtomic ==
    \/ \E t \in Threads, h \in H : clone_begin(t, h)
    \/ \E t \in Threads : clone_inc(t)
    \/ \E t \in Threads, h \in H : rc_drop(t, h)
    \/ \E t \in Threads : to_null_fin(t)
    \/ \E t \in Threads, c \in H, n \in H, weak \in BOOLEAN :
           compare_exchange(t, c, n, weak)
    \/ \E t \in Threads, c \in H, n \in H : compare_and_swap(t, c, n)
    \/ \E t \in Threads : load(t)
    \/ \E t \in Threads, p \in H : store(t, p)
    \/ \E t \in Threads, p \in H : swap(t, p)

SpecAtomic == Init /\ [][NextAtomic]_vars

\* Handles cloned, emptied by to_null and dropped.
NextToNull ==
    \/ \E t \in Threads, h \in H : clone_begin(t, h)
    \/ \E t \in Threads : clone_inc(t)
    \/ \E t \in Threads, h \in H : to_null(t, h)
    \/ \E t \in Threads, h \in H : rc_drop(t, h)
    \/ \E t \in Threads : to_null_fin(t)

SpecToNull == Init /\ [][NextToNull]_vars

\* The thread whose calls are followed to their end.
Caller == CHOOSE t \in Threads : \A u \in Threads : t <= u

\* There is a handle left for every clone under way and one more.
Room == Cardinality(FreeIds) > Cardinality({u \in Threads : th[u].op = "clone"})

\* The steps that end a call a thread is inside of.
Finish(t) == clone_inc(t) \/ to_null_fin(t)

\* Every operation of a handle, by any thread, while there is room for the
\* handles they return.
NextLive ==
    \/ \E t \in Threads : Room /\ clone_begin(t, Slot)
    \/ \E t \in Threads : clone_inc(t)
    \/ \E t \in Threads, h \in H : rc_drop(t, h)
    \/ \E t \in Threads : to_null(t, Slot)
    \/ \E t \in Threads : to_null_fin(t)
    \/ \E t \in Threads : Room /\ load(t)
    \/ \E t \in Threads, p \in H : store(t, p)
    \/ \E t \in Threads, p \in H : Room /\ swap(t, p)
    \/ \E t \in Threads, c \in H, n \in H :
           Room /\ compare_exchange(t, c, n, FALSE)

\* Only the caller is scheduled fairly; the other threads may stop
\* anywhere.
SpecLive == Init /\ [][NextLive]_vars /\ WF_vars(Finish(Caller))

\* aligned_size called once, with any size a type can have and any
\* alignment.
Aligns == {a \in 1..Pow2(WordBits - 1) : IsPow2(a)}

InitAlign ==
    /\ pc = "idle" /\ inp = NoInput /\ blk = NoBlock /\ hlen = 0 /\ cur = 0
    /\ dlen = 0 /\ calls = <<>> /\ dlog = <<>> /\ panic = "none"
    /\ twin = NoTwin
    /\ \E size \in 0..IsizeMax, align \in Aligns :
          obs = [NoObs EXCEPT !.op = "input", !.key = size, !.val = align]
    /\ InitRc

aligned_size_call ==
    /\ obs.op = "input"
    /\ obs' = [obs EXCEPT !.op = "aligned_size",
                          !.out = Some(aligned_size(obs.key, obs.val))]
    /\ UNCHANGED <<pc, inp, blk, hlen, cur, dlen, calls, dlog, panic, twin>>
    /\ UNCHANGED rcVars

SpecAlign == InitAlign /\ [][aligned_size_call]_vars

\* Handles emptied and dropped, and null handles cloned.
NextNull ==
    \/ \E t \in Threads : null_ref(t)
    \/ \E t \in Threads, h \in H : is_null(h) /\ clone_begin(t, h)
    \/ \E t \in Threads, h \in H : rc_drop(t, h)
    \/ \E t \in Threads, h \in H : to_null(t, h)
    \/ \E t \in Threads : to_null_fin(t)

SpecNull == Init /\ [][NextNull]_vars

\* The live handles that refer to block b.
HandlesOf(b) == {h \in H : hd[h].st = "live" /\ hd[h].ptr = b}

\* The first handle cloned, and the handles to its block operated on by
\* their owners.
NextShare ==
    \/ \E t \in Threads : clone_begin(t, Slot)
    \/ \E t \in Threads : clone_inc(t)
    \/ \E t \in Threads, h \in HandlesOf(hd[Slot].ptr) : rc_access(t, h)

SpecShare == Init /\ [][NextShare]_vars

Next ==
    \/ \E t \in Threads, h \in H : clone_begin(t, h)
    \/ \E t \in Threads : clone_inc(t)
    \/ \E t \in Threads, h \in H : rc_drop(t, h)
    \/ \E t \in Threads, h \in H : to_null(t, h)
    \/ \E t \in Threads : to_null_fin(t)
    \/ \E t \in Threads : null_ref(t)
    \/ \E t \in Threads, c \in H, n \in H, weak \in BOOLEAN :
           compare_exchange(t, c, n, weak)
    \/ \E t \in Threads, c \in H, n \in H : compare_and_swap(t, c, n)
    \/ \E t \in Threads : load(t)
    \/ \E t \in Threads, p \in H : store(t, p)
    \/ \E t \in Threads, p \in H : swap(t, p)

Spec == Init /\ [][Next]_vars

\* ================================================================ claims

\* How often the log records event k for index i.
Count(k, i) ==
    Cardinality({n \in 1..Len(dlog) : dlog[n].k = k /\ dlog[n].i = i})

\* Runs of the label's destructor: in dealloc, and of a label new did not
\* move into the block.
LabelDrops == Count("label", 0) + Count("label_unmoved", 0)

Frees == Cardinality({n \in 1..Len(dlog) : dlog[n].k = "free"})

\* The label the generator is handed at its n-th call (n calls before it).
LabelAfter(lt, n) ==
    IF lt = "Zst" THEN Label0
    ELSE [even |-> (n + 1) \div 2, odd |-> n \div 2]

\* C1: a freshly built array, fat or thin, has length() = len and get(i)
\* yields g(i) for every i in 0..len.
C1_FreshArray ==
    pc = "built" =>
        /\ length = inp.len
        /\ \A i \in 0..(inp.len - 1), g \in Garbage :
              get(i, g) = Some(GenItem(inp.f, i))

C1_Witness ==
    /\ pc = "built"
    /\ inp.len >= 2
    /\ inp.kind = "Thin"
    /\ inp.f[0] # inp.f[1]

C1_WitnessFat ==
    /\ pc = "built"
    /\ inp.len >= 2
    /\ inp.kind = "Fat"
    /\ inp.f[0] # inp.f[1]

\* C2: during construction the label is written before any generator call,
\* the generator is called once per index in ascending order 0, 1, ..,
\* len-1, and each call sees the label as the earlier calls left it, so the
\* counting label ends with even + odd = len.
C2_GeneratorOrder ==
    /\ \A n \in 1..Len(calls) :
         /\ calls[n].idx = n - 1
         /\ calls[n].seen = LabelAfter(inp.lt, n - 1)
    /\ Len(calls) <= inp.len
    /\ (pc = "init" /\ BlkLabel.size # 0) => blk.labelInit
    /\ pc = "built" =>
         /\ Len(calls) = inp.len
         /\ inp.lt = "Sized" => blk.label.even + blk.label.odd = inp.len

C2_Witness ==
    /\ pc = "built"
    /\ inp.lt = "Sized"
    /\ inp.len = 3
    /\ blk.label = [even |-> 2, odd |-> 1]
    /\ Len(calls) = 3

\* C3: building an exclusively owned array and dropping it runs exactly len
\* element destructors and exactly one label destructor and frees the block
\* exactly once; nothing is destroyed twice.
C3_DestroyedExactlyOnce ==
    /\ LabelDrops <= 1
    /\ Frees <= 1
    /\ \A i \in Idx : Count("elem", i) <= 1
    /\ pc = "dropped" =>
         /\ LabelDrops = 1
         /\ Frees = 1
         /\ \A i \in Idx : Count("elem", i) = IF i < inp.len THEN 1 ELSE 0

\* What does hold of the code: C3's statement for every array whose block
\* label is not zero-sized (every thin array, and a fat array with a sized
\* label), and the element and free counts for all arrays.
C3_SizedLabel ==
    /\ Frees <= 1
    /\ \A i \in Idx : Count("elem", i) <= 1
    /\ BlkLabel.size # 0 => LabelDrops <= 1
    /\ pc = "dropped" =>
         /\ BlkLabel.size # 0 => LabelDrops = 1
         /\ Frees = 1
         /\ \A i \in Idx : Count("elem", i) = IF i < inp.len THEN 1 ELSE 0

\* --- reference counting

\* The handles that own a reference to b: alive, pointing at b, and not in
\* the middle of drop or to_null (a handle whose count has been given up
\* and that the call is about to end or null).
Holders(b) == {h \in H : hd[h].st = "live" /\ hd[h].ptr = b /\ ~Dropping(h)}

\* The handles through which b can still be reached.
Referring(b) == {h \in H : hd[h].st = "live" /\ hd[h].ptr = b}

Intact(b) ==
    /\ rblk[b].st = "live"
    /\ rblk[b].len = RcLen(b)
    /\ rblk[b].label = RcLabel(b)
    /\ rblk[b].elems = RcElems(b)

\* C4: with handles cloned and dropped in any order, every handle that has
\* not been dropped stays non-null and reports the block's length, label
\* and elements unchanged; the block is destroyed by the drop of its last
\* handle, exactly once.
C4_CloneDrop ==
    /\ \A h \in H : hd[h].st = "live" => ~is_null(h)
    /\ \A b \in B :
         /\ Holders(b) # {} => Intact(b)
         /\ rblk[b].destroyed <= 1
         /\ rblk[b].destroyed = 1 => Holders(b) = {}
         /\ Referring(b) = {} => rblk[b].destroyed = 1

C4_Witness ==
    \E b \in B, h \in H :
        /\ rblk[b].clones = 2
        /\ Referring(b) = {h}
        /\ ~Dropping(h)
        /\ rblk[b].cnt = 1
        /\ Intact(b)

\* C5: for the thin-backed handle, when threads clone a handle N times in
\* all and the N+1 handles are dropped, in any interleaving, the block is
\* destroyed exactly once (and no freed count is ever touched).
C5_OneDestruction ==
    \A b \in B : rblk[b].kind = "Thin" =>
        /\ ~ub
        /\ rblk[b].destroyed <= 1
        /\ (Referring(b) = {}) =>
             /\ rblk[b].destroyed = 1
             /\ rblk[b].cnt = 0

C5_Witness ==
    \E b \in B :
        /\ rblk[b].kind = "Thin"
        /\ rblk[b].clones = 2
        /\ rblk[b].cloners = Threads
        /\ Referring(b) = {}
        /\ rblk[b].destroyed = 1

\* C6: no non-null handle refers to a freed block, and no block is freed
\* more than once, under clone, to_null, drop and the atomic operations.
C6_NoDanglingNoDoubleFree ==
    \A b \in B :
        /\ Holders(b) # {} => rblk[b].st = "live"
        /\ rblk[b].destroyed <= 1

\* A thread has decremented b's count to 0 and is about to destroy b.
LastDropPending(b) ==
    \E t \in Threads : /\ th[t].op \in {"drop", "to_null"}
                       /\ hd[th[t].h].ptr = b
                       /\ is_last(th[t].r)

\* C7: the count of a block that is not freed is >= 1 and equals the number
\* of live non-null handles referring to it; it reaches 0 exactly once.
C7_CountIsHandles ==
    \A b \in B :
        /\ rblk[b].destroyed <= 1
        /\ rblk[b].st = "live" =>
             /\ rblk[b].cnt = Cardinality(Holders(b))
             /\ ~LastDropPending(b) => rblk[b].cnt >= 1

\* C8: compare_exchange succeeds iff the slot holds current's block; on
\* success the slot then holds new and the call yields the old occupant.
C8_CompareExchange ==
    last.op = "compare_exchange" =>
        /\ last.ok <=> (last.before = last.cur)
        /\ last.ok => /\ hd[Slot].ptr = last.new
                      /\ ap_load(as_atomic(Slot)) = last.new
                      /\ last.ret = last.before

\* C9: when compare_exchange or compare_exchange_weak fails, the slot is
\* unchanged, the call yields the occupant, and the caller still owns new.
C9_FailedExchange ==
    (last.op \in {"compare_exchange", "compare_exchange_weak"} /\ ~last.ok) =>
        /\ hd[Slot].ptr = last.before
        /\ last.ret = last.before
        /\ hd[last.hnew].st = "live"
        /\ hd[last.hnew].owner = last.t
        /\ hd[last.hnew].ptr = last.new

\* C10: swap(p) leaves p's block in the slot and yields the block the slot
\* held before the call.
C10_Swap ==
    last.op = "swap" =>
        /\ hd[Slot].ptr = last.new
        /\ last.ret = last.before

\* C11: after store(p) a load of the slot yields p's block, and load never
\* changes which block the slot holds.
C11_StoreLoad ==
    /\ last.op = "store" => ap_load(as_atomic(Slot)) = last.new
    /\ last.op = "load" => /\ hd[Slot].ptr = last.before
                           /\ last.ret = last.before

\* --- layout

\* The smallest multiple of a that is >= s.
AlignUp(s, a) == CHOOSE m \in s..(s + a - 1) : m % a = 0

\* The bytes of a block of n elements, in unbounded arithmetic.
ExactSize(e, l, n) ==
    IF n = 0 THEN l.size ELSE AlignUp(l.size, e.align) + e.size * n

ExactAlign(e, l, n) ==
    IF n = 0 \/ l.align >= e.align THEN l.align ELSE e.align

\* C17: memory_layout(N) has align = max(align(L), align(E)) and size =
\* align_up(size(L), align(E)) + size(E) * N for N > 0, and is (size(L),
\* align(L)) for N = 0; a block is allocated with exactly that layout.
C17_MemoryLayout ==
    pc # "idle" =>
        /\ \A n \in 0..MaxLen :
              memory_layout(inp.et, BlkLabel, n) =
                  <<ExactSize(inp.et, BlkLabel, n), ExactAlign(inp.et, BlkLabel, n)>>
        /\ blk.st = "live" =>
              <<blk.size, blk.align>> =
                  <<ExactSize(inp.et, BlkLabel, inp.len),
                    ExactAlign(inp.et, BlkLabel, inp.len)>>

C17_Witness ==
    /\ blk.st = "live"
    /\ inp.len > 0
    /\ BlkLabel.size % inp.et.align # 0
    /\ blk.size = AlignUp(BlkLabel.size, inp.et.align) + inp.et.size * inp.len
    /\ blk.size > BlkLabel.size + inp.et.size * inp.len

\* C18: max_len() is the largest N whose layout size is within isize::MAX
\* (the ceiling itself for zero-sized elements); for every len <= max_len()
\* the size is computed without overflow and is within the ceiling, and
\* every allocated block is within the ceiling.
C18_MaxLen ==
    pc # "idle" =>
        LET e == inp.et
            l == BlkLabel
            m == max_len(e, l)
        IN  /\ e.size = 0 => m = IsizeMax
            /\ e.size # 0 => /\ ExactSize(e, l, m) <= IsizeMax
                             /\ ExactSize(e, l, m + 1) > IsizeMax
            /\ \A n \in 0..m :
                  /\ memory_layout(e, l, n)[1] = ExactSize(e, l, n)
                  /\ ExactSize(e, l, n) <= IsizeMax
            /\ blk.st = "live" => blk.size <= IsizeMax

C18_Witness ==
    /\ blk.st = "live"
    /\ inp.et.size # 0
    /\ inp.len = max_len(inp.et, BlkLabel)
    /\ inp.len > 0

\* A layout the allocation contract calls invalid: zero size, zero align
\* or an align that is not a power of two.
InvalidLayout(size, align) == size = 0 \/ align = 0 \/ ~IsPow2(align)

\* C19: allocation fails fatally when len > max_len(), when the layout is
\* invalid or when the allocator returns null; then no block is live,
\* nothing is written and the generator is not called.
C19_AllocFailures ==
    pc \notin {"idle", "alloc"} =>
        LET lay == memory_layout(inp.et, BlkLabel, inp.len)
            fails == \/ inp.len > max_len(inp.et, BlkLabel)
                     \/ InvalidLayout(lay[1], lay[2])
                     \/ panic = "null"
        IN  fails => /\ pc = "panicked"
                     /\ blk.st = "none"
                     /\ ~blk.labelInit
                     /\ blk.init = {}
                     /\ calls = <<>>

\* --- operations on a built array

\* C12: an indexing (index, index_mut, get, get_mut, insert, add), length
\* (len) or label (get_label, get_label_mut) operation called on a null
\* reference-counted handle ends in the "Null dereference" panic; it
\* returns no value and neither reads nor modifies any block.
C12_NullChecked ==
    (obs.op \in RcOps /\ obs.null) =>
        /\ obs.out = NullDeref
        /\ ~obs.touched

\* A handle emptied by to_null was operated on by a writing call, which
\* panicked.
C12_Witness ==
    /\ obs.op \in {"insert", "add", "get_label_mut"}
    /\ obs.null
    /\ obs.out = NullDeref
    /\ \E b \in B : rblk[b].destroyed = 1

\* C13: for idx < length(), insert(idx, value) returns the element that was
\* at idx and leaves value there; the length, the label and every other
\* element are unchanged and no slot is left uninitialized.
C13_InsertInRange ==
    (pc = "built" /\ obs.op = "insert" /\ obs.key < length) =>
        /\ obs.out = Some(obs.before.elems[obs.key])
        /\ blk.elems[obs.key] = obs.val
        /\ \A i \in Idx \ {obs.key} : blk.elems[i] = obs.before.elems[i]
        /\ blk.init = obs.before.init
        /\ blk.init = 0..(inp.len - 1)
        /\ blk.label = obs.before.label
        /\ blk.lenField = obs.before.lenField
        /\ length = inp.len
        /\ ~obs.oob

C13_Witness ==
    /\ pc = "built"
    /\ obs.op = "insert"
    /\ obs.key > 0
    /\ obs.key < length
    /\ obs.val # obs.before.elems[obs.key]
    /\ obs.out = Some(obs.before.elems[obs.key])
    /\ blk.elems[obs.key] = obs.val

\* C14: for every idx >= length(), idx = length() included, insert(idx,
\* value) returns None and leaves the array, and all other memory, as it
\* was.
C14_InsertOutOfRange ==
    (pc = "built" /\ obs.op = "insert" /\ obs.key >= length) =>
        /\ obs.out = None
        /\ blk = obs.before
        /\ ~obs.oob

\* C15: get(idx) and get_mut(idx) return Some(element idx) for idx <
\* length() and None for every idx >= length(); they never panic and never
\* reach outside the element run.
C15_CheckedAccess ==
    (pc = "built" /\ obs.op \in {"get", "get_mut"}) =>
        /\ obs.key < length => obs.out = Some(blk.elems[obs.key])
        /\ obs.key >= length => obs.out = None
        /\ obs.out.tag # "Panic"
        /\ ~obs.oob

\* C16: array[idx] is the element at idx for idx < length() and panics for
\* every idx >= length(), for the fat and the thin representation.
C16_IndexAccess ==
    (pc = "built" /\ obs.op \in {"index", "index_mut"}) =>
        /\ obs.key < length => obs.out = Some(blk.elems[obs.key])
        /\ obs.key >= length => obs.out = Panic

\* Both representations can hold the array that was built.
BothAdmit ==
    /\ inp.len <= max_len(inp.et, BlockLabelDesc("Fat", inp.lt))
    /\ inp.len <= max_len(inp.et, BlockLabelDesc("Thin", inp.lt))

\* What the other representation returns for the same call on the same
\* length and contents.
TwinOut(op, key, g) ==
    IF op \in {"index", "index_mut"}
    THEN IF inp.kind = "Fat" THEN thin_index(inp.len, key, g)
                             ELSE fat_index(inp.len, key, g)
    ELSE IF inp.kind = "Fat" THEN thin_get(inp.len, key, g)
                             ELSE fat_get(inp.len, key, g)

\* C20: on the same label, length and contents the fat and the thin
\* representation give the same result for every get / get_mut, index and
\* insert, out-of-range indices included, and fail in the same cases.
C20_FatThinEquivalent ==
    (/\ pc = "built"
     /\ BothAdmit
     /\ obs.op \in {"get", "get_mut", "index", "index_mut", "insert"}
     /\ blk = obs.before) =>
        /\ obs.out \in {TwinOut(obs.op, obs.key, g) : g \in Garbage}
        /\ \A key \in Keys, g \in Garbage :
              /\ fat_get(inp.len, key, g) = thin_get(inp.len, key, g)
              /\ fat_index(inp.len, key, g) = thin_index(inp.len, key, g)

\* What dealloc did so far: the log without the entry of a label that new
\* dropped itself.
DeallocLog == SelectSeq(dlog, LAMBDA e : e.k # "label_unmoved")

\* The events of a complete dealloc(n), in order.
DeallocOrder(n) ==
    [j \in 1..(n + 2) |->
        IF j = 1 THEN "label" ELSE IF j = n + 2 THEN "free" ELSE "elem"]

\* C27: dealloc(len) runs the label's destructor first, then each element's
\* destructor once for i = 0..len in ascending order, and frees the memory
\* only after all len + 1 destructors have run.
C27_DeallocOrder ==
    /\ Len(DeallocLog) <= dlen + 2
    /\ \A j \in 1..Len(DeallocLog) :
          /\ DeallocLog[j].k = DeallocOrder(dlen)[j]
          /\ DeallocLog[j].k = "elem" => DeallocLog[j].i = j - 2
    /\ pc = "dropped" => Len(DeallocLog) = dlen + 2

\* An array of at least two elements has been destroyed.
C27_Witness ==
    /\ pc = "dropped"
    /\ dlen >= 2
    /\ Len(DeallocLog) = dlen + 2

\* C28: dealloc_lazy(len) frees the block's memory exactly once and runs no
\* destructor: the label's and every element's destructor counts are the
\* same after the call as before.
C28_DeallocLazy ==
    [][dealloc_lazy =>
          /\ LabelDrops' = LabelDrops
          /\ \A i \in Idx : Count("elem", i)' = Count("elem", i)
          /\ Frees = 0
          /\ Frees' = 1
          /\ blk.st = "live" /\ blk'.st = "freed"]_vars

\* The memory of an array with elements has been freed by dealloc_lazy.
C28_Witness ==
    /\ pc = "dropped"
    /\ Frees = 1
    /\ dlen >= 1
    /\ blk.st = "freed"
\* The bytes [Lo, Hi) of slot idx of the built array's block.
SlotLo(idx) == get_ptr(inp.et, BlkLabel, idx).val

SlotHi(idx) == SlotLo(idx) + inp.et.size

\* C29: get_ptr(idx) addresses element idx at byte offset
\* align_up(size(L), align(E)) + idx * size(E) from the block base; for a
\* block allocated with length len and every idx < len the slot lies inside
\* the allocated size given by memory_layout(len), starts at a multiple of
\* align(E), does not overlap the label's bytes, and slots of distinct
\* indices do not overlap.
C29_SlotAddress ==
    pc = "built" =>
        \A idx \in 0..(inp.len - 1) :
            /\ get_ptr(inp.et, BlkLabel, idx) =
                    Some(AlignUp(BlkLabel.size, inp.et.align) + idx * inp.et.size)
            /\ SlotHi(idx) <= memory_layout(inp.et, BlkLabel, inp.len)[1]
            /\ SlotHi(idx) <= blk.size
            /\ SlotLo(idx) % inp.et.align = 0
            /\ SlotLo(idx) >= BlkLabel.size
            /\ \A j \in 0..(inp.len - 1) :
                  j # idx => (SlotHi(j) <= SlotLo(idx) \/ SlotHi(idx) <= SlotLo(j))

\* get_ptr was called for an element after the first, in a block whose
\* label is padded to the element's alignment.
C29_Witness ==
    /\ pc = "built"
    /\ obs.op = "get_ptr"
    /\ obs.key >= 1 /\ obs.key < inp.len
    /\ obs.out = Some(SlotLo(obs.key))
    /\ aligned_size(BlkLabel.size, inp.et.align) > BlkLabel.size

\* C30: get_ptr(idx) and get_ptr_mut(idx) panic for every idx >= max_len()
\* and compute no address then; for idx < max_len() they never panic.
C30_PtrBound ==
    /\ obs.op \in {"get_ptr", "get_ptr_mut"} =>
          (obs.out = Panic <=> obs.key >= max_len(inp.et, BlkLabel))
    /\ pc = "built" =>
          \A idx \in 0..(IsizeMax + 1) :
              /\ get_ptr(inp.et, BlkLabel, idx).tag = "Panic"
                    <=> idx >= max_len(inp.et, BlkLabel)
              /\ get_ptr_mut(inp.et, BlkLabel, idx).tag = "Panic"
                    <=> idx >= max_len(inp.et, BlkLabel)

\* get_ptr_mut was called with idx = max_len() and panicked.
C30_Witness ==
    /\ obs.op = "get_ptr_mut"
    /\ obs.key = max_len(inp.et, BlkLabel)
    /\ obs.out = Panic
\* What the operations that read yield through handle h (with 0 for what
\* the memory after the last element holds).
Reads(h) ==
    [op \in {"len", "index", "get", "get_label"} |->
        [key \in Keys |-> rc_call(h, op, key, 0, 0).out]]

\* C22: cloning a non-null reference-counted handle returns a handle that
\* aliases the same block (every finished clone of a block is one more
\* handle to it): the handles report the same length and index i of each
\* is the same slot, so a write through one handle is observed through the
\* others.
C22_CloneAliases ==
    /\ \A b \in B :
          /\ Cardinality(HandlesOf(b)) = rc_new + rblk[b].clones
          /\ LET first == CHOOSE h \in HandlesOf(b) : TRUE
                 seen == Reads(first)
             IN  /\ seen["len"][0] = Some(RcLen(b))
                 /\ \A h \in HandlesOf(b) \ {first} : Reads(h) = seen
    /\ (obs.op \in {"insert", "add"} /\ ~obs.null /\ obs.key < RcLen(1)) =>
          \E b \in B :
              /\ rblk[b].elems[obs.key + 1] = obs.val
              /\ \A h \in HandlesOf(b) :
                    Reads(h)["index"][obs.key] = Some(obs.val)

\* An element was written through one of two handles to the same block,
\* one of them made by clone, and both read the written value.
C22_Witness ==
    /\ obs.op \in {"insert", "add"}
    /\ obs.touched
    /\ \E b \in B :
          /\ Cardinality(HandlesOf(b)) >= 2
          /\ rblk[b].clones >= 1
          /\ rblk[b].elems # RcElems(b)
          /\ \A h \in HandlesOf(b) :
                Reads(h)["index"][obs.key] = Some(obs.val)

\* C23: clone of a reference-counted handle in the Null state returns a
\* Null handle and changes no block's reference count.
C23_CloneOfNull ==
    [][\A t \in Threads, h \in H :
          (is_null(h) /\ clone_begin(t, h)) =>
              /\ hd'[NewId] = [st |-> "live", ptr |-> Null, owner |-> t]
              /\ \A g \in H \ {NewId} : hd'[g] = hd[g]
              /\ rblk' = rblk
              /\ th' = th
      ]_vars

\* A null handle was cloned and the clone is null.
C23_Witness ==
    /\ last.op = "clone"
    /\ hd[last.hnew].st = "live" /\ is_null(last.hnew)
    /\ hd[last.hret].st = "live" /\ is_null(last.hret)
    /\ \E b \in B : rblk[b].st = "live"

\* C24: drop / to_null on a reference-counted handle in the Null state is
\* a no-op: no count is decremented, no destruction runs and the handle
\* stays Null (to_null on a null handle may so be repeated).
C24_NullNoOp ==
    [][\A t \in Threads, h \in H :
          /\ (is_null(h) /\ to_null(t, h)) =>
                /\ rblk' = rblk /\ th' = th /\ ub' = ub
                /\ hd' = hd
          /\ (is_null(h) /\ rc_drop(t, h)) =>
                /\ rblk' = rblk /\ th' = th /\ ub' = ub
                /\ hd' = [hd EXCEPT ![h] = Gone]
      ]_vars

\* to_null has been called twice and the first handle, which nobody
\* cloned, is empty; no other block lost a reference: one call emptied the
\* handle and the other found a null handle.
C24_Witness ==
    /\ nnull = 2
    /\ \A t \in Threads : th[t].op = "idle"
    /\ hd[Slot].st = "live" /\ is_null(Slot)
    /\ rblk[Slot].destroyed = 1 /\ rblk[Slot].clones = 0
    /\ \A b \in B \ {Slot} :
          rblk[b].st = "live" /\ rblk[b].cnt = rc_new + rblk[b].clones

\* C25: after to_null() returns on a reference-counted handle, whatever
\* the block's count was, is_null() is true for that handle.
C25_ToNullNulls ==
    [][\A t \in Threads :
          (th[t].op = "to_null" /\ to_null_fin(t)) => hd'[th[t].h].ptr = Null
      ]_vars

\* What an array shows of itself: whether its block is allocated, its
\* length, its label and its elements.
SourceView ==
    [st |-> blk.st, len |-> length, label |-> blk.label,
     labelInit |-> blk.labelInit, elems |-> blk.elems, init |-> blk.init]

TwinView ==
    [st |-> TwinBlk.st, len |-> TwinLen, label |-> TwinBlk.label,
     labelInit |-> TwinBlk.labelInit, elems |-> TwinBlk.elems,
     init |-> TwinBlk.init]

\* A step of the source array: an insert, a label write, or a step of its
\* drop.
SourceStep ==
    \/ obs'.n # obs.n /\ obs'.op \in {"insert", "set_label"}
    \/ pc \in {"built", "drop_label", "drop_elems"} /\
         <<pc, cur, dlog>>' # <<pc, cur, dlog>> /\ obs' = obs /\ twin.st = twin'.st

\* A step of the clone: an insert, a label write, or its drop.
TwinStep ==
    \/ obs'.n # obs.n /\ obs'.op \in {"twin_insert", "twin_set_label"}
    \/ twin.st = "live" /\ twin'.st = "dropped"

C26_LengthFixed ==
    /\ pc = "built" =>
         /\ length = inp.len
         /\ inp.kind = "Thin" => blk.lenField = inp.len
    /\ twin.st = "live" => TwinLen = inp.len
    /\ (pc = "built" /\ obs.op \in {"get_label", "get_label_mut", "set_label"}) =>
         /\ obs.out = Some(obs.before.label)
         /\ blk.lenField = obs.before.lenField
    /\ (twin.st = "live" /\ obs.op = "twin_set_label") =>
         TwinBlk.lenField = obs.before.lenField

\* A label write on a thin array of length 3, with a value that is not its
\* length, after it was cloned.
C26_Witness ==
    /\ pc = "built"
    /\ inp.kind = "Thin"
    /\ inp.lt = "Sized"
    /\ inp.len = MaxLen
    /\ twin.st = "live"
    /\ obs.op = "set_label"
    /\ obs.val # inp.len
    /\ blk.label.even = obs.val
    /\ length = MaxLen

\* The length, label and elements an array holds.
Content(b, n) ==
    [len |-> n, label |-> b.label, st |-> b.st, init |-> b.init,
     elems |-> [i \in Idx |-> IF i < n THEN b.elems[i] ELSE 0]]

\* C31: after a.clone_from(&b) a has b's length, label and elements and b
\* is as it was.  With equal lengths a keeps its block and nothing is
\* destroyed or allocated; with different lengths a is on a fresh block
\* and its old block had its label and each of its elements destroyed
\* once and was freed once.
C31_CloneFrom ==
    [][/\ (obs'.n # obs.n /\ obs'.op = "twin_clone_from") =>
            /\ Content(TwinBlk, TwinLen)' = Content(blk, length)
            /\ SourceView' = SourceView
            /\ dlog' = dlog
            /\ TwinLen = length =>
                 /\ twin'.ptr = twin.ptr
                 /\ twin'.dlog = twin.dlog
            /\ TwinLen # length =>
                 /\ twin'.ptr \notin {0, twin.ptr}
                 /\ twin'.dlog = twin.dlog \o dealloc_run(TwinLen)
       /\ (obs'.n # obs.n /\ obs'.op = "clone_from") =>
            /\ Content(blk, length)' = Content(TwinBlk, TwinLen)
            /\ TwinView' = TwinView
            /\ twin' = twin
            /\ TwinLen = length => dlog' = dlog
            /\ TwinLen # length => dlog' = dlog \o dealloc_run(length)
      ]_vars

\* A longer array took the place of a shorter one, whose two elements and
\* label were destroyed once each.
C31_Witness ==
    /\ pc = "built"
    /\ obs.op = "twin_clone_from"
    /\ twin.st = "live"
    /\ twin.ptr = 2
    /\ length = MaxLen
    /\ TwinLen = MaxLen
    /\ Len(twin.dlog) = 4
    /\ TwinBlk.elems = blk.elems
    /\ inp.et.size # 0

\* An array was overwritten in place by one of its length holding other
\* elements.
C31_WitnessEqual ==
    /\ pc = "built"
    /\ obs.op = "clone_from"
    /\ twin.st = "live"
    /\ twin.ptr = 1
    /\ twin.dlog = <<>>
    /\ length = MaxLen
    /\ blk.elems = TwinBlk.elems
    /\ blk.elems # obs.before.elems
    /\ Frees = 0

\* C32: of two compare_exchange calls by different threads on the slot,
\* with the occupant as current and different new, one succeeds and the
\* other fails and is handed the winner's new, which the slot then holds.
\* (The two calls in either order, one right after the other.)
C32_CasLinearizable ==
    [][( /\ last.op = "compare_exchange"
         /\ last.ok
         /\ last.new # last.cur
         /\ last'.op = "compare_exchange"
         /\ last'.t # last.t
         /\ last'.cur = last.cur
         /\ last'.new # last.new
         /\ hd' # hd ) =>
            /\ ~last'.ok
            /\ last'.ret = last.new
            /\ hd'[Slot].ptr = last.new
      ]_vars

\* C33: under clone, drop and the atomic operations on the slot, the count
\* of every block that is not freed is the number of handles that own it
\* (the slot's occupant and the callers' handles), no freed count is
\* touched, and once no handle refers to a block it has been destroyed
\* exactly once.
C33_OwnershipConserved ==
    /\ ~ub
    /\ \A b \in B :
         /\ rblk[b].destroyed <= 1
         /\ (rblk[b].st = "live" /\ ~LastDropPending(b)) =>
               rblk[b].cnt = Cardinality(Holders(b))
         /\ Referring(b) = {} => rblk[b].destroyed = 1

\* C34: a handle takes its block's count down at most once, to_null and
\* the later drop of the same handle together: a block is destroyed only
\* when no other handle refers to it, so no live handle is left on a freed
\* block and no count is read from freed memory.
C34_DecrementOnce ==
    /\ ~ub
    /\ \A h \in H :
         (hd[h].st = "live" /\ ~is_null(h) /\ ~Dropping(h)) =>
             /\ rblk[hd[h].ptr].st = "live"
             /\ rblk[hd[h].ptr].cnt >= 1

\* C35: a call of index, get, get_mut, insert, add, len, get_label or
\* get_label_mut through a handle leaves every block's count as it was,
\* destroys nothing, and the label accessors yield the label the block was
\* built with, not the count stored with it.
C35_AccessKeepsCount ==
    [][obs'.n # obs.n =>
          /\ \A b \in B : /\ rblk'[b].cnt = rblk[b].cnt
                          /\ rblk'[b].st = rblk[b].st
                          /\ rblk'[b].label = rblk[b].label
          /\ hd' = hd
          /\ (obs'.op \in {"get_label", "get_label_mut"} /\ ~obs'.null) =>
                obs'.out = Some(RcLabel(hd[Slot].ptr))
      ]_vars

\* The label was asked for through one of three handles on the block.
C35_Witness ==
    /\ obs.op = "get_label_mut"
    /\ ~obs.null
    /\ rblk[hd[Slot].ptr].cnt = 3
    /\ Cardinality(HandlesOf(hd[Slot].ptr)) = 3
    /\ obs.out = Some(RcLabel(hd[Slot].ptr))

\* C36: the length dealloc is called with is the length the block was
\* allocated for (the fat handle's len, the thin block's len field read
\* before the label is destroyed), so the layout handed to the allocator
\* on free is the (size, align) of the allocation.
C36_SameLayout ==
    /\ pc \in {"drop_label", "drop_elems", "dropped"} =>
          /\ dlen = inp.len
          /\ memory_layout(inp.et, BlkLabel, dlen) = <<blk.size, blk.align>>
    /\ \A n \in 1..Len(dlog) : dlog[n].k = "free" => dlog[n].i = blk.size
    /\ pc = "dropped" => Frees = 1

\* A thin array of three sized elements was freed.
C36_Witness ==
    /\ pc = "dropped"
    /\ inp.kind = "Thin"
    /\ inp.len = MaxLen
    /\ inp.et.size # 0
    /\ blk.size > BlkLabel.size
    /\ dlog[Len(dlog)] = [k |-> "free", i |-> blk.size]

\* C37: a call the caller is inside of (clone, drop, to_null; the atomic
\* operations are one step) comes to its end when the caller alone keeps
\* being scheduled, wherever the other threads have stopped.
C37_NoWaiting == (th[Caller].op # "idle") ~> (th[Caller].op = "idle")

\* The caller finished a clone while another thread was stopped in the
\* middle of dropping a handle to the same block.
C37_Witness ==
    \E u \in Threads \ {Caller}, b \in B :
        /\ th[u].op \in {"drop", "to_null"}
        /\ hd[th[u].h].ptr = b
        /\ Caller \in rblk[b].cloners
        /\ th[Caller].op = "idle"

\* C38: aligned_size(size, align) is the smallest multiple of align that is
\* >= size, and is size itself when size is a multiple of align, for every
\* size a type can have (0..isize::MAX) and every power-of-two alignment.
C38_AlignedSize ==
    obs.op = "aligned_size" =>
        LET size == obs.key
            align == obs.val
            r == obs.out.val
        IN  /\ obs.out.tag = "Some"
            /\ r % align = 0
            /\ r >= size
            /\ r - size < align
            /\ \A m \in 0..(Pow2(WordBits) - 1) :
                   (m % align = 0 /\ m >= size) => r <= m
            /\ size % align = 0 => r = size

\* A size that is not a multiple of the alignment was rounded up.
C38_Witness ==
    /\ obs.op = "aligned_size"
    /\ obs.key = 5
    /\ obs.val = 4
    /\ obs.out = Some(8)

====
